---- MODULE Spec2Model ----
(***************************************************************************)
(* Model of the imu.rs telemetry pipeline: the framed transport between    *)
(* the publisher (write side) and the consumer (read side), with the       *)
(* consumer's hand-off of decoded samples to the motion processor.         *)
(*                                                                         *)
(* A byte is a natural number below 256.  Sensor values are abstracted to  *)
(* natural numbers; 0 is the default value of every field.                 *)
(***************************************************************************)
EXTENDS Integers, Sequences, FiniteSets, TLC

VARIABLES
    \* ---- the byte stream of the consumer's current connection
    wire,               \* bytes written by the peer and not yet read
    writer_closed,      \* the writing peer has dropped its end of that stream
    \* ---- Consumer (consumer.rs)
    cpc,                \* position of Consumer::run
    message_len,        \* local message_len of the read loop
    buffer,             \* local buffer of the read loop
    state,              \* MotionProcessor.state (MotionState)
    run_result,         \* what Consumer::run returned
    consumed,           \* history: every byte Consumer::run has read so far
    processed,          \* history: every sample passed to MotionProcessor::process
    \* ---- the listening socket
    listener,           \* "unbound" or "bound"
    backlog,            \* connection waiting to be accepted: "empty", "live", "dead"
    \* ---- test server of the consumer's tests
    chunks_written,     \* number of chunks the test server has written
    \* ---- Publisher (publisher.rs)
    ppc,                \* position of Publisher::run / publish_data / send_message
    consecutive_errors, \* local consecutive_errors of publish_data
    imu_data,           \* the sample generated in the current iteration
    reader_closed,      \* the consumer end of the publisher's stream is gone
    pub_result,         \* what Publisher::run returned
    sent_ok,            \* history: samples whose send_message returned Ok (this connection)
    publish_result,     \* what publish_data returned to run
    failed_in_a_row,    \* history: send_message calls that returned Err since the last Ok
    faults,             \* history: failed writes that left a part of a frame on the stream
    conns,              \* number of Consumer processes started so far
    streams,            \* number of accepted streams the publisher holds
    socket_file,        \* what is at the socket path: "absent", "stale", "socket"
    timeout,            \* the timeout argument given to Consumer::new
    send_attempts,      \* history: send_message calls made for the sample in imu_data
    \* ---- MotionProcessor and the test that drives it (motion.rs)
    velocity_decay,     \* MotionProcessor.velocity_decay, in hundredths
    dt_ms,              \* local dt_ms of test_acceleration_integration
    \* ---- ImuEmulator (imu_emulator.rs)
    emulator,           \* the fields of the ImuEmulator
    now,                \* the latest SystemTime::now() read by generate_data
    emu_log,            \* history: generate_data calls, what the latest drew,
                        \* and the time each channel was last updated
    move_call           \* the latest direct call of move_toward_target_* and its result

streamVars == <<wire, writer_closed>>
consumerVars == <<cpc, message_len, buffer, state, run_result, consumed, processed>>
listenerVars == <<listener, socket_file, backlog>>
pubLocal == <<ppc, consecutive_errors, imu_data, pub_result, sent_ok,
              publish_result, failed_in_a_row, send_attempts>>
benchVars == <<velocity_decay, dt_ms, emulator, now, emu_log, move_call>>
publisherVars == <<pubLocal, reader_closed, faults, streams, conns, timeout,
                   benchVars>>
vars == <<wire, writer_closed, cpc, message_len, buffer, state, run_result,
          consumed, processed, listener, backlog, chunks_written, ppc,
          consecutive_errors, imu_data, reader_closed, pub_result, sent_ok,
          publish_result, failed_in_a_row, faults, conns, streams,
          socket_file, timeout, send_attempts, velocity_decay, dt_ms,
          emulator, now, emu_log, move_call>>

----------------------------------------------------------------------------
(* Bounds of the model *)

\* number of chunks the consumer tests' server writes before it closes
MaxChunks == 3

\* number of samples sent successfully on one connection
MaxSends == 2

\* number of failed writes on one connection that leave a part of a frame
\* on the stream
MaxPartial == 1

\* number of Consumer processes started
MaxConns == 2

\* number of process calls made on one MotionProcessor
MaxSamples == 2

\* number of generate_data calls made on one ImuEmulator
MaxCalls == 2

----------------------------------------------------------------------------
(* ImuData and its codec *)

\* the twelve fields of the wire record, in field-number order
Fields ==
    << "x_acc", "y_acc", "z_acc", "timestamp_acc",
       "x_gyro", "y_gyro", "z_gyro", "timestamp_gyro",
       "x_mag", "y_mag", "z_mag", "timestamp_mag" >>

FieldNames == {Fields[i] : i \in 1..Len(Fields)}

\* ImuData::default(): every field zero
DefaultImuData == [f \in FieldNames |-> 0]

\* a sample as the tests build it: no magnetic field, every channel
\* stamped with the same time
create_test_imu_data(x_acc, y_acc, z_acc, x_gyro, y_gyro, z_gyro, timestamp) ==
    [ x_acc |-> x_acc, y_acc |-> y_acc, z_acc |-> z_acc,
      timestamp_acc |-> timestamp,
      x_gyro |-> x_gyro, y_gyro |-> y_gyro, z_gyro |-> z_gyro,
      timestamp_gyro |-> timestamp,
      x_mag |-> 0, y_mag |-> 0, z_mag |-> 0,
      timestamp_mag |-> timestamp ]

\* the samples the model sends
Samples ==
    { create_test_imu_data(0, 0, 0, 0, 0, 0, 1),
      create_test_imu_data(0, 0, 0, 3, 0, 0, 2) }

RECURSIVE EncodeFrom(_, _)
\* fields i..12 of d: a field holding its default value is not written,
\* any other field is written as its tag followed by its value
EncodeFrom(d, i) ==
    IF i > Len(Fields) THEN << >>
    ELSE (IF d[Fields[i]] = 0 THEN << >> ELSE <<i, d[Fields[i]]>>)
         \o EncodeFrom(d, i + 1)

\* ImuData::encode
Encode(d) == EncodeFrom(d, 1)

DecodeError == [ok |-> FALSE, data |-> DefaultImuData]

RECURSIVE DecodeInto(_, _)
\* merge the (tag, value) pairs of bytes into d; a tag that is no field
\* number and a value that is cut off are decode errors
DecodeInto(d, bytes) ==
    IF bytes = << >> THEN [ok |-> TRUE, data |-> d]
    ELSE IF Len(bytes) < 2 THEN DecodeError
    ELSE IF bytes[1] \notin 1..Len(Fields) THEN DecodeError
    ELSE DecodeInto([d EXCEPT ![Fields[bytes[1]]] = bytes[2]],
                    SubSeq(bytes, 3, Len(bytes)))

\* ImuData::decode
Decode(bytes) == DecodeInto(DefaultImuData, bytes)

----------------------------------------------------------------------------
(* Framing *)

\* u32::to_be_bytes
ToBeBytes(n) ==
    << (n \div 16777216) % 256, (n \div 65536) % 256, (n \div 256) % 256, n % 256 >>

\* the value read_u32 assembles from four bytes
FromBeBytes(b) == b[1] * 16777216 + b[2] * 65536 + b[3] * 256 + b[4]

Take(s, n) == SubSeq(s, 1, n)
Drop(s, n) == SubSeq(s, n + 1, Len(s))

----------------------------------------------------------------------------
(* MotionProcessor (motion.rs)                                              *)
(*                                                                          *)
(* The f32 arithmetic is modelled in fixed point.  Times are milliseconds,  *)
(* accelerometer readings milli-g, gyro readings milli-degrees per second.  *)
(* A quaternion is <<w, x, y, z>> in units of 1/QS; accelerations are in    *)
(* mm/s^2, velocity in micrometres per second, position in micrometres.     *)
(* Every division truncates toward zero.                                    *)

\* the fixed-point unit of quaternion and unit-vector coordinates
QS == 10000

\* const MIN_DELTA_TIME: f32 = 0.001, in milliseconds
MIN_DELTA_TIME == 1

\* const MAX_DELTA_TIME: f32 = 0.1, in milliseconds
MAX_DELTA_TIME == 100

Abs(a) == IF a < 0 THEN 0 - a ELSE a

\* a / b of two numbers, b > 0, truncated toward zero
Quot(a, b) == IF a >= 0 THEN a \div b ELSE 0 - ((0 - a) \div b)

\* let v = x; F(v): the value of F at x, x being evaluated once
Let(x, F(_)) == CHOOSE r \in { F(v) : v \in {x} } : TRUE

RECURSIVE SqrtIter(_, _)
SqrtIter(n, x) ==
    Let((x + n \div x) \div 2,
        LAMBDA y : IF y >= x THEN x ELSE SqrtIter(n, y))

\* the integer part of the square root of n
ISqrt(n) == Let(n, LAMBDA m : IF m < 2 THEN m ELSE SqrtIter(m, m))

\* Vector3::norm
Norm(v) == ISqrt(v[1] * v[1] + v[2] * v[2] + v[3] * v[3])

Cross(a, b) ==
    << a[2] * b[3] - a[3] * b[2],
       a[3] * b[1] - a[1] * b[3],
       a[1] * b[2] - a[2] * b[1] >>

\* UnitQuaternion::identity()
Identity == <<QS, 0, 0, 0>>

Zeros == <<0, 0, 0>>

\* MotionState::default()
DefaultMotionState ==
    [ orientation |-> Identity,
      velocity |-> Zeros,
      position |-> Zeros,
      last_acc_timestamp |-> 0,
      last_gyro_timestamp |-> 0 ]

SaturatingSub_Plain(a, b) == a - b

\* u32::saturating_sub
SaturatingSub(a, b) == IF a >= b THEN a - b ELSE 0

\* if self.state.last_gyro_timestamp != 0 / last_acc_timestamp != 0
Seeded(last) == last # 0

\* let dt_gyro = .., in milliseconds
DtGyro(st, d) ==
    IF Seeded(st.last_gyro_timestamp)
    THEN SaturatingSub(d["timestamp_gyro"], st.last_gyro_timestamp)
    ELSE MIN_DELTA_TIME

DtAcc_SharedTimestamp(st, d) ==
    IF Seeded(st.last_gyro_timestamp)
    THEN SaturatingSub(d["timestamp_acc"], st.last_gyro_timestamp)
    ELSE MIN_DELTA_TIME

\* let dt_acc = .., in milliseconds
DtAcc(st, d) ==
    IF Seeded(st.last_acc_timestamp)
    THEN SaturatingSub(d["timestamp_acc"], st.last_acc_timestamp)
    ELSE MIN_DELTA_TIME

\* if dt_gyro > MAX_DELTA_TIME / if dt_acc > MAX_DELTA_TIME
Stale(dt) == dt > MAX_DELTA_TIME

\* the gyro reading with the (zero) bias taken off, milli-degrees per second
GyroVec(d) == << d["x_gyro"], d["y_gyro"], d["z_gyro"] >>

AccVec_PlusMag(d) ==
    << d["x_acc"] + d["x_mag"], d["y_acc"] + d["y_mag"],
       d["z_acc"] + d["z_mag"] >>

\* the accelerometer reading with the (zero) bias taken off, milli-g
AccVec(d) == << d["x_acc"], d["y_acc"], d["z_acc"] >>

AngleBelowEpsilon_ZeroOnly(gyro, dt) == Norm(gyro) * dt = 0

\* angle < EPSILON, for angle = gyro_vec.norm() * dt_gyro in radians and
\* EPSILON = 1e-6: norm * dt * 1e-6 * pi / 180 < 1e-6, with pi = 355 / 113,
\* that is norm * dt * 355 < 180 * 113 in whole numbers
AngleBelowEpsilon(gyro, dt) == Norm(gyro) * dt <= (180 * 113 - 1) \div 355

\* half of the rotation angle norm * dt * 1e-6 * pi / 180, in units of
\* 1/QS radians
HalfAngle(gyro, dt) == Quot(Quot(Norm(gyro) * dt, 1000) * 355, 2 * 113 * 18)

\* sine and cosine of a small angle h given in units of 1/QS radians
Sin(h) == h - (((h * h) \div QS) * h) \div (6 * QS)
Cos(h) == QS - (h * h) \div (2 * QS)

\* gyro_vec.normalize(), or Vector3::x() for a norm that is not above EPSILON
Axis(gyro) ==
    Let(Norm(gyro), LAMBDA norm :
        IF norm > 0
        THEN << Quot(gyro[1] * QS, norm), Quot(gyro[2] * QS, norm),
                Quot(gyro[3] * QS, norm) >>
        ELSE << QS, 0, 0 >>)

\* UnitQuaternion::from_axis_angle(&axis_unit, angle)
GyroQuat(gyro, dt) ==
    Let(HalfAngle(gyro, dt), LAMBDA h :
    Let(Axis(gyro), LAMBDA axis :
        << Cos(h), Quot(axis[1] * Sin(h), QS), Quot(axis[2] * Sin(h), QS),
           Quot(axis[3] * Sin(h), QS) >>))

\* the product of two quaternions
QMul(p, q) ==
    << Quot(p[1] * q[1] - p[2] * q[2] - p[3] * q[3] - p[4] * q[4], QS),
       Quot(p[1] * q[2] + p[2] * q[1] + p[3] * q[4] - p[4] * q[3], QS),
       Quot(p[1] * q[3] - p[2] * q[4] + p[3] * q[1] + p[4] * q[2], QS),
       Quot(p[1] * q[4] + p[2] * q[3] - p[3] * q[2] + p[4] * q[1], QS) >>

\* Quaternion::norm
QNorm(q) == ISqrt(q[1] * q[1] + q[2] * q[2] + q[3] * q[3] + q[4] * q[4])

QNormalize_Skip(q) == q

\* Quaternion::normalize
QNormalize(q) ==
    Let(QNorm(q), LAMBDA norm :
        IF norm = 0 THEN q
        ELSE << Quot(q[1] * QS, norm), Quot(q[2] * QS, norm),
                Quot(q[3] * QS, norm), Quot(q[4] * QS, norm) >>)

InBand_Closed(acc) ==
    LET m2 == acc[1] * acc[1] + acc[2] * acc[2] + acc[3] * acc[3]
    IN  m2 >= 950 * 950 /\ m2 <= 1050 * 1050

\* (acc_magnitude > 950.0) && (acc_magnitude < 1050.0)
InBand(acc) ==
    LET m2 == acc[1] * acc[1] + acc[2] * acc[2] + acc[3] * acc[3]
    IN  m2 > 950 * 950 /\ m2 < 1050 * 1050

\* UnitQuaternion::rotation_between(&gravity_unit, &acc_norm_unit)
\*     .unwrap_or(UnitQuaternion::identity()):
\* the shortest rotation taking (0, 0, 1) onto the direction of acc; the
\* identity when the two are parallel or opposite
AccQuat(acc) ==
    Let(Norm(acc), LAMBDA acc_magnitude :
    Let(<< Quot(acc[1] * QS, acc_magnitude), Quot(acc[2] * QS, acc_magnitude),
           Quot(acc[3] * QS, acc_magnitude) >>, LAMBDA n :
    Let(ISqrt(n[1] * n[1] + n[2] * n[2]), LAMBDA c :
    Let(ISqrt(((QS + n[3]) * QS) \div 2), LAMBDA ch :
    Let(ISqrt(((QS - n[3]) * QS) \div 2), LAMBDA sh :
        IF c = 0 THEN Identity
        ELSE << ch, Quot((0 - n[2]) * sh, c), Quot(n[1] * sh, c), 0 >>)))))

\* Quaternion::new(gyro_weight * gyro_orientation + acc_weight * acc_quat),
\* coordinate by coordinate, with gyro_weight 0.98 and acc_weight 0.02
Blend(gyro_orientation, acc_quat) ==
    << Quot(98 * gyro_orientation[1] + 2 * acc_quat[1], 100),
       Quot(98 * gyro_orientation[2] + 2 * acc_quat[2], 100),
       Quot(98 * gyro_orientation[3] + 2 * acc_quat[3], 100),
       Quot(98 * gyro_orientation[4] + 2 * acc_quat[4], 100) >>

\* the else branch of if self.disable_complementary_filter (it is false):
\* the orientation stored for a gyro-predicted orientation
Corrected(gyro_orientation, acc) ==
    IF InBand(acc)
    THEN Let(AccQuat(acc), LAMBDA acc_quat :
         Let(Blend(gyro_orientation, acc_quat), LAMBDA blended :
             QNormalize(blended)))
    ELSE gyro_orientation

\* MotionProcessor::update_orientation
UpdateOrientation(st, d) ==
    LET dt_gyro == DtGyro(st, d)
        seen == [st EXCEPT !.last_gyro_timestamp = d["timestamp_gyro"]]
    IN  IF Stale(dt_gyro) THEN seen
        ELSE IF AngleBelowEpsilon(GyroVec(d), dt_gyro) THEN seen
        ELSE Let(GyroQuat(GyroVec(d), dt_gyro), LAMBDA gyro_quat :
             Let(QMul(st.orientation, gyro_quat), LAMBDA gyro_orientation :
                 [seen EXCEPT !.orientation =
                     Corrected(gyro_orientation, AccVec(d))]))

\* UnitQuaternion * Vector3: v + w * t + u x t with t = 2 (u x v)
Rotate(q, v) ==
    Let(<< q[2], q[3], q[4] >>, LAMBDA u :
    Let(Cross(u, v), LAMBDA uv :
    Let(<< Quot(2 * uv[1], QS), Quot(2 * uv[2], QS), Quot(2 * uv[3], QS) >>,
        LAMBDA t :
    Let(Cross(u, t), LAMBDA ut :
        << v[1] + Quot(q[1] * t[1], QS) + Quot(ut[1], QS),
           v[2] + Quot(q[1] * t[2], QS) + Quot(ut[2], QS),
           v[3] + Quot(q[1] * t[3], QS) + Quot(ut[3], QS) >>))))

\* (acc - bias) * 9.81 / 1000.0, in mm/s^2
AccBody(acc) ==
    << Quot(acc[1] * 981, 100), Quot(acc[2] * 981, 100),
       Quot(acc[3] * 981, 100) >>

\* Vector3::new(0.0, 0.0, 9.81), in mm/s^2
Gravity == <<0, 0, 9810>>

Filter_Inclusive(a) == IF Abs(a) <= 10 THEN 0 ELSE a

\* |a| if a.abs() < acc_threshold { 0.0 } else { a }, acc_threshold = 0.01
Filter(a) == IF Abs(a) < 10 THEN 0 ELSE a

\* velocity_decay: 0.98 in MotionProcessor::new, in hundredths
VELOCITY_DECAY == 98

Integrate_DefaultDecay(velocity, filtered_acc, dt) ==
    << Quot((velocity[1] + filtered_acc[1] * dt) * VELOCITY_DECAY, 100),
       Quot((velocity[2] + filtered_acc[2] * dt) * VELOCITY_DECAY, 100),
       Quot((velocity[3] + filtered_acc[3] * dt) * VELOCITY_DECAY, 100) >>

Integrate_DecayFirst(velocity, filtered_acc, dt) ==
    << Quot(velocity[1] * velocity_decay, 100) + filtered_acc[1] * dt,
       Quot(velocity[2] * velocity_decay, 100) + filtered_acc[2] * dt,
       Quot(velocity[3] * velocity_decay, 100) + filtered_acc[3] * dt >>

\* self.state.velocity += filtered_acc * dt_acc;
\* self.state.velocity *= self.velocity_decay
Integrate(velocity, filtered_acc, dt) ==
    << Quot((velocity[1] + filtered_acc[1] * dt) * velocity_decay, 100),
       Quot((velocity[2] + filtered_acc[2] * dt) * velocity_decay, 100),
       Quot((velocity[3] + filtered_acc[3] * dt) * velocity_decay, 100) >>

\* position += velocity * dt_acc
Advance(position, velocity, dt) ==
    << position[1] + Quot(velocity[1] * dt, 1000),
       position[2] + Quot(velocity[2] * dt, 1000),
       position[3] + Quot(velocity[3] * dt, 1000) >>

\* MotionProcessor::update_velocity_and_position
UpdateVelocityAndPosition(st, d) ==
    LET dt_acc == DtAcc(st, d)
        seen == [st EXCEPT !.last_acc_timestamp = d["timestamp_acc"]]
    IN  IF Stale(dt_acc) THEN seen
        ELSE Let(AccBody(AccVec(d)), LAMBDA acc_body :
             Let(Rotate(st.orientation, acc_body), LAMBDA acc_world :
             Let(<< Filter(acc_world[1] - Gravity[1]),
                    Filter(acc_world[2] - Gravity[2]),
                    Filter(acc_world[3] - Gravity[3]) >>, LAMBDA filtered_acc :
             Let(Integrate(st.velocity, filtered_acc, dt_acc), LAMBDA velocity :
                 [seen EXCEPT !.velocity = velocity,
                              !.position = Advance(st.position, velocity,
                                                   dt_acc)]))))

Process_VelocityFirst(st, d) ==
    Let(d, LAMBDA imu :
    Let(UpdateVelocityAndPosition(st, imu), LAMBDA moved :
        UpdateOrientation(moved, imu)))

\* MotionProcessor::process
Process(st, d) ==
    Let(d, LAMBDA imu :
    Let(UpdateOrientation(st, imu), LAMBDA oriented :
        UpdateVelocityAndPosition(oriented, imu)))

----------------------------------------------------------------------------
(* ImuEmulator (imu_emulator.rs) *)

\* A SystemTime, as the milliseconds since UNIX_EPOCH, and a Duration in
\* milliseconds are numbers of three digits in base 2^16, the most
\* significant digit first: the last two digits are the low 32 bits.
Limb == 65536

UNIX_EPOCH == <<0, 0, 0>>

\* a < b for two times, and for two u32 values held as two digits
TimeLess(a, b) ==
    \E i \in 1..Len(a) :
        /\ a[i] < b[i]
        /\ \A j \in 1..(i - 1) : a[j] = b[j]

\* t + Duration::from_millis(n) for n below 2^16
AddMillis(t, n) ==
    LET l0 == t[3] + n
        l1 == t[2] + l0 \div Limb
    IN  << t[1] + l1 \div Limb, l1 % Limb, l0 % Limb >>

\* a.duration_since(b).unwrap_or(Duration::from_millis(0)).as_millis():
\* duration_since is an Err for a time a before b
DurationSince(a, b) ==
    IF TimeLess(a, b) THEN <<0, 0, 0>>
    ELSE LET d0 == a[3] - b[3]
             d1 == a[2] - b[2] - (IF d0 < 0 THEN 1 ELSE 0)
             d2 == a[1] - b[1] - (IF d1 < 0 THEN 1 ELSE 0)
         IN  << d2, (d1 + Limb) % Limb, (d0 + Limb) % Limb >>

\* .as_millis() as u32: the low 32 bits
AsU32(millis) == << millis[2], millis[3] >>

\* UNIX_EPOCH + Duration::from_millis(last_timestamp as u64)
FromTimestamp(last_timestamp) ==
    << 0, last_timestamp[1], last_timestamp[2] >>

\* ImuEmulator::get_timestamp
get_timestamp(t) == AsU32(DurationSince(t, UNIX_EPOCH))

\* elapsed >= n for a drawn n below 2^16
AtLeast(elapsed, n) == elapsed[1] > 0 \/ elapsed[2] > 0 \/ elapsed[3] >= n

\* ImuEmulator::should_update_sensor, for the number drawn from jitter_range
should_update_sensor(t, last_timestamp, drawn) ==
    AtLeast(DurationSince(t, FromTimestamp(last_timestamp)), drawn)

ACC_MAX_CHANGE == 100
GYRO_MAX_CHANGE == 500
MAG_MAX_CHANGE == 20

\* ImuEmulator::move_toward_target_float, with ALPHA = 0.7; a float is held
\* as a whole number of its unit
move_toward_target_float(current, target, max_change) ==
    LET diff == target - current
        step == IF diff > 0 THEN max_change ELSE 0 - max_change
        new_value == current + step
    IN  IF Abs(diff) <= max_change THEN target
        ELSE Quot(7 * new_value + 3 * current, 10)

\* ImuEmulator::move_toward_target_int: the blend is computed in f32 and
\* cast back with "as i32", which truncates toward zero
move_toward_target_int(current, target, max_change) ==
    LET diff == target - current
        step == IF diff > 0 THEN max_change ELSE 0 - max_change
        new_value == current + step
    IN  IF Abs(diff) <= max_change THEN target
        ELSE Quot(7 * new_value + 3 * current, 10)

\* ImuEmulator::update_accelerometer; drawn is the number drawn from 0..2
update_accelerometer(em, t, drawn, noise) ==
    IF ~should_update_sensor(t, em.data["timestamp_acc"], drawn) THEN em
    ELSE [em EXCEPT
            !.data["x_acc"] =
                move_toward_target_float(@, em.acc_target[1], ACC_MAX_CHANGE)
                + noise[1],
            !.data["y_acc"] =
                move_toward_target_float(@, em.acc_target[2], ACC_MAX_CHANGE)
                + noise[2],
            !.data["z_acc"] =
                move_toward_target_float(@, em.acc_target[3], ACC_MAX_CHANGE)
                + noise[3],
            !.data["timestamp_acc"] = get_timestamp(t)]

\* ImuEmulator::update_gyroscope; drawn is the number drawn from 1..2
update_gyroscope(em, t, drawn, noise) ==
    IF ~should_update_sensor(t, em.data["timestamp_gyro"], drawn) THEN em
    ELSE [em EXCEPT
            !.data["x_gyro"] =
                move_toward_target_int(@, em.gyro_target[1], GYRO_MAX_CHANGE)
                + noise[1],
            !.data["y_gyro"] =
                move_toward_target_int(@, em.gyro_target[2], GYRO_MAX_CHANGE)
                + noise[2],
            !.data["z_gyro"] =
                move_toward_target_int(@, em.gyro_target[3], GYRO_MAX_CHANGE)
                + noise[3],
            !.data["timestamp_gyro"] = get_timestamp(t)]

\* ImuEmulator::update_magnetometer; drawn is the number drawn from 1..3
update_magnetometer(em, t, drawn, noise) ==
    IF ~should_update_sensor(t, em.data["timestamp_mag"], drawn) THEN em
    ELSE [em EXCEPT
            !.data["x_mag"] =
                move_toward_target_float(@, em.mag_target[1], MAG_MAX_CHANGE)
                + noise[1],
            !.data["y_mag"] =
                move_toward_target_float(@, em.mag_target[2], MAG_MAX_CHANGE)
                + noise[2],
            !.data["z_mag"] =
                move_toward_target_float(@, em.mag_target[3], MAG_MAX_CHANGE)
                + noise[3],
            !.data["timestamp_mag"] = get_timestamp(t)]

\* ImuData::default() as the emulator holds it: a timestamp is a u32
EmulatorData ==
    [ f \in FieldNames |->
        IF f \in {"timestamp_acc", "timestamp_gyro", "timestamp_mag"}
        THEN <<0, 0>> ELSE 0 ]

\* ImuEmulator::new()
NewEmulator ==
    [ data |-> EmulatorData,
      acc_target |-> Zeros,
      gyro_target |-> Zeros,
      mag_target |-> Zeros,
      next_target_change |-> UNIX_EPOCH ]

\* nothing generated yet: no call, and every channel counts as last
\* updated at UNIX_EPOCH, the time its timestamp 0 stands for
NoCalls ==
    [ calls |-> 0,
      drawn |-> [acc |-> 0, gyro |-> 0, mag |-> 0],
      updated_at |-> [acc |-> UNIX_EPOCH, gyro |-> UNIX_EPOCH,
                      mag |-> UNIX_EPOCH] ]

\* what update_targets draws: random_range(-300.0..300.0) twice and
\* random_range(900.0..1100.0), random_range(-2000..2000) three times,
\* random_range(-400.0..400.0) three times
TargetDraws ==
    { [acc |-> <<-300, 0, 900>>, gyro |-> <<-2000, 0, 1999>>,
       mag |-> <<-400, 399, 0>>],
      [acc |-> <<299, -150, 1099>>, gyro |-> <<1999, -2000, 5>>,
       mag |-> <<100, 20, -20>>] }

\* self.rng.random_range(1000..3000)
ChangeDraws == {1000, 2999}

\* the numbers drawn from the jitter ranges 0..2, 1..2 and 1..3
JitterDraws == [acc : 0..1, gyro : {1}, mag : 1..2]

\* what acc_noise, gyro_noise (cast to i32) and mag_noise give, three draws
\* for each channel
NoiseDraws ==
    { [acc |-> Zeros, gyro |-> Zeros, mag |-> Zeros],
      [acc |-> <<1, -2, 0>>, gyro |-> <<-50, 0, 49>>, mag |-> <<0, 5, -5>>] }

\* milliseconds between two readings of the clock
Delays == {0, 1, 1000}

\* the clock at the time the emulator is made: shortly after the epoch, one
\* millisecond before the low 32 bits of the milliseconds wrap (1970-02-19),
\* and in the year 2026
StartTimes == { <<0, 0, 5>>, <<0, Limb - 1, Limb - 1>>, <<417, 1, 2>> }

\* if now >= self.next_target_change { self.update_targets(); .. }
Retarget(em, t, targets, change) ==
    IF ~TimeLess(t, em.next_target_change)
    THEN [em EXCEPT !.acc_target = targets.acc,
                    !.gyro_target = targets.gyro,
                    !.mag_target = targets.mag,
                    !.next_target_change = AddMillis(t, change)]
    ELSE em

\* ImuEmulator::generate_data at the time t
generate_data(em, t, targets, change, drawn, noise) ==
    update_magnetometer(
        update_gyroscope(
            update_accelerometer(Retarget(em, t, targets, change),
                                 t, drawn.acc, noise.acc),
            t, drawn.gyro, noise.gyro),
        t, drawn.mag, noise.mag)

\* no direct call of move_toward_target_float or move_toward_target_int yet
NoMove ==
    [ variant |-> "none", current |-> 0, target |-> 0, max_change |-> 0,
      result |-> 0 ]

----------------------------------------------------------------------------
(* Consumer::run *)

ConnectOutcomes == {"ok", "error", "timeout"}

\* DEFAULT_TIMEOUT: &str = "1000"; // ms
DEFAULT_TIMEOUT == 1000

\* values of --timeout: value_parser!(u32).range(1..=60*1000)
TimeoutArgs == {1, DEFAULT_TIMEOUT, 60 * 1000}

\* Duration::from_secs, as a number of milliseconds
DurationFromSecs(secs) == secs * 1000

\* Consumer::new: let timeout = Duration::from_secs(timeout.into());
\* the field self.timeout in milliseconds
ConsumerTimeout == DurationFromSecs(timeout)

\* the stream owned by run is dropped when run returns: a connection still
\* waiting in the backlog dies there, an accepted one loses its reader
Return(result) ==
    /\ run_result' = result
    /\ cpc' = "done"
    /\ wire' = << >>
    /\ IF backlog = "live"
       THEN backlog' = "dead" /\ UNCHANGED reader_closed
       ELSE reader_closed' = TRUE /\ UNCHANGED backlog

ConnectFailed_Retry(kind) == UNCHANGED <<run_result, cpc>>

\* Ok(Err(e)) => return Err(e) and Err(_) => return Err(TimedOut)
ConnectFailed(kind) ==
    /\ run_result' = kind
    /\ cpc' = "done"

\* timeout(self.timeout, UnixStream::connect(..)): the single connect attempt
Connect(outcome) ==
    /\ cpc = "connect"
    /\ CASE outcome = "ok" ->
              /\ listener = "bound"
              /\ backlog = "empty"
              /\ backlog' = "live"
              /\ cpc' = "read_len"
              /\ wire' = << >>
              /\ writer_closed' = FALSE
              /\ UNCHANGED <<run_result, reader_closed>>
         [] outcome = "error" ->
              /\ listener = "unbound"
              /\ ConnectFailed("ConnectError")
              /\ UNCHANGED <<wire, writer_closed, backlog, reader_closed>>
         [] outcome = "timeout" ->
              /\ listener = "bound"
              /\ ConnectFailed("TimedOut")
              /\ UNCHANGED <<wire, writer_closed, backlog, reader_closed>>
    /\ UNCHANGED <<message_len, buffer, state, consumed, processed, listener, socket_file,
                   chunks_written, pubLocal, faults, streams, conns, timeout,
                   benchVars>>

NextAfterLen_NoSkip(len) == "read_body"

\* if message_len == 0 { continue; } else the body is read
NextAfterLen(len) == IF len = 0 THEN "read_len" ELSE "read_body"

LenEofResult_Err == "UnexpectedEof"

\* Err(e) if e.kind() == UnexpectedEof => break Ok(())
LenEofResult == "Ok"

BodyEofResult_Clean == "Ok"

\* if let Err(e) = reader.read_exact(..) { break Err(e) }
BodyEofResult == "UnexpectedEof"

\* reader.read_u32() returns Ok(len); a length of 0 continues the loop,
\* any other length goes on to read the body
ReadLen ==
    /\ cpc = "read_len"
    /\ Len(wire) >= 4
    /\ message_len' = FromBeBytes(Take(wire, 4))
    /\ consumed' = consumed \o Take(wire, 4)
    /\ wire' = Drop(wire, 4)
    /\ cpc' = NextAfterLen(message_len')
    /\ UNCHANGED <<writer_closed, buffer, state, run_result, processed,
                   listenerVars, chunks_written, publisherVars>>

\* reader.read_u32() meets end-of-stream before its fourth byte:
\* ErrorKind::UnexpectedEof, which the loop turns into Ok(())
ReadLenEof ==
    /\ cpc = "read_len"
    /\ Len(wire) < 4
    /\ writer_closed
    /\ consumed' = consumed \o wire
    /\ Return(LenEofResult)
    /\ UNCHANGED <<writer_closed, message_len, buffer, state, processed,
                   listener, socket_file, chunks_written, pubLocal, faults, streams, conns, timeout,
                   benchVars>>

\* reader.read_u32() fails with any other error kind
ReadLenError ==
    /\ cpc = "read_len"
    /\ Return("IoError")
    /\ UNCHANGED <<writer_closed, message_len, buffer, state, consumed,
                   processed, listener, socket_file, chunks_written, pubLocal, faults, streams, conns, timeout,
                   benchVars>>

\* buffer.resize(message_len, 0); reader.read_exact(&mut buffer) returns Ok
ReadBody ==
    /\ cpc = "read_body"
    /\ Len(wire) >= message_len
    /\ buffer' = Take(wire, message_len)
    /\ consumed' = consumed \o Take(wire, message_len)
    /\ wire' = Drop(wire, message_len)
    /\ cpc' = "decode"
    /\ UNCHANGED <<writer_closed, message_len, state, run_result, processed,
                   listenerVars, chunks_written, publisherVars>>

\* read_exact meets end-of-stream before the buffer is full: break Err(e)
ReadBodyEof ==
    /\ cpc = "read_body"
    /\ Len(wire) < message_len
    /\ writer_closed
    /\ consumed' = consumed \o wire
    /\ Return(BodyEofResult)
    /\ UNCHANGED <<writer_closed, message_len, buffer, state, processed,
                   listener, socket_file, chunks_written, pubLocal, faults, streams, conns, timeout,
                   benchVars>>

\* read_exact fails with any other error kind: break Err(e)
ReadBodyError ==
    /\ cpc = "read_body"
    /\ Return("IoError")
    /\ UNCHANGED <<writer_closed, message_len, buffer, state, consumed,
                   processed, listener, socket_file, chunks_written, pubLocal, faults, streams, conns, timeout,
                   benchVars>>

HandleSample_Twice(d) ==
    /\ state' = Process(Process(state, d), d)
    /\ processed' = processed \o <<d, d>>
    /\ cpc' = "read_len"
    /\ UNCHANGED <<run_result, listenerVars, reader_closed, streamVars>>

\* Ok(imu_data) => self.motion_processor.process(&imu_data), then loop
HandleSample(d) ==
    /\ state' = Process(state, d)
    /\ processed' = Append(processed, d)
    /\ cpc' = "read_len"
    /\ UNCHANGED <<run_result, listenerVars, reader_closed, streamVars>>

DecodeFailed_Break ==
    /\ Return("InvalidData")
    /\ UNCHANGED <<state, processed, listener, socket_file, writer_closed>>

\* Err(e) => warn!(..), then loop
DecodeFailed ==
    /\ cpc' = "read_len"
    /\ UNCHANGED <<state, processed, run_result, listenerVars, reader_closed,
                   streamVars>>

\* match ImuData::decode(buffer.as_slice())
DecodeMessage ==
    /\ cpc = "decode"
    /\ LET r == Decode(buffer) IN
         IF r.ok THEN HandleSample(r.data) ELSE DecodeFailed
    /\ UNCHANGED <<message_len, buffer, consumed, chunks_written,
                   pubLocal, faults, streams, conns, timeout,
                   benchVars>>

ConsumerStep ==
    \/ \E outcome \in ConnectOutcomes : Connect(outcome)
    \/ ReadLen
    \/ ReadLenEof
    \/ ReadBody
    \/ ReadBodyEof
    \/ DecodeMessage

ConsumerFault ==
    \/ ReadLenError
    \/ ReadBodyError

----------------------------------------------------------------------------
(* The server of the consumer's tests: it binds, accepts, writes, drops *)

\* ToBeBytes(len) followed by the payload
Frame(payload) == ToBeBytes(Len(payload)) \o payload

ZeroFrame == ToBeBytes(0)

\* payloads that do not decode: tag 0 is no field, a lone tag has no value
GarbagePayloads == { <<0, 7>>, <<4>> }

\* what the server writes in one go: whole frames and cut-off frames
Chunks ==
    {ZeroFrame}
    \cup {Frame(Encode(d)) : d \in Samples}
    \cup {Frame(g) : g \in GarbagePayloads}
    \cup { <<0>>, <<0, 0, 0>>, <<0, 0, 0, 2>>, <<0, 0, 0, 2, 4>> }

\* listener.accept()
ServerAccept ==
    /\ ppc = "off"
    /\ backlog = "live"
    /\ backlog' = "empty"
    /\ UNCHANGED <<streamVars, consumerVars, listener, socket_file, chunks_written,
                   publisherVars>>

\* stream.write_u32 / write_all / send_message
ServerWrite(chunk) ==
    /\ ppc = "off"
    /\ cpc \in {"read_len", "read_body", "decode"}
    /\ backlog = "empty"
    /\ ~writer_closed
    /\ chunks_written < MaxChunks
    /\ wire' = wire \o chunk
    /\ chunks_written' = chunks_written + 1
    /\ UNCHANGED <<writer_closed, consumerVars, listenerVars, publisherVars>>

\* drop(stream)
ServerClose ==
    /\ ppc = "off"
    /\ cpc \in {"read_len", "read_body", "decode"}
    /\ backlog = "empty"
    /\ ~writer_closed
    /\ writer_closed' = TRUE
    /\ UNCHANGED <<wire, consumerVars, listenerVars, chunks_written,
                   publisherVars>>

ServerStep ==
    \/ ServerAccept
    \/ \E chunk \in Chunks : ServerWrite(chunk)
    \/ ServerClose

----------------------------------------------------------------------------
(* Consumer::run against the test server *)

ConsumerInit ==
    /\ wire = << >>
    /\ writer_closed = FALSE
    /\ cpc = "connect"
    /\ message_len = 0
    /\ buffer = << >>
    /\ state = DefaultMotionState
    /\ run_result = "none"
    /\ consumed = << >>
    /\ processed = << >>
    /\ listener \in {"bound", "unbound"}
    /\ socket_file = IF listener = "bound" THEN "socket" ELSE "absent"
    /\ backlog = "empty"
    /\ chunks_written = 0
    /\ ppc = "off"
    /\ consecutive_errors = 0
    /\ imu_data = DefaultImuData
    /\ reader_closed = FALSE
    /\ pub_result = "none"
    /\ sent_ok = << >>
    /\ publish_result = "none"
    /\ failed_in_a_row = 0
    /\ faults = 0
    /\ conns = 1
    /\ streams = 0
    /\ timeout \in TimeoutArgs
    /\ send_attempts = 0
    /\ velocity_decay = VELOCITY_DECAY
    /\ dt_ms = 0
    /\ emulator = NewEmulator
    /\ now = UNIX_EPOCH
    /\ emu_log = NoCalls
    /\ move_call = NoMove

ConsumerNext ==
    \/ ConsumerStep
    \/ ConsumerFault
    \/ ServerStep

\* the consumer task is scheduled whenever it can make a step
ConsumerSpec ==
    ConsumerInit /\ [][ConsumerNext]_vars /\ WF_vars(ConsumerStep)

----------------------------------------------------------------------------
(* Reference reading of a byte stream as frames *)

RECURSIVE FramesOf(_)
\* the payloads of the complete frames at the head of bytes, in order
FramesOf(bytes) ==
    IF Len(bytes) < 4 THEN << >>
    ELSE LET n == FromBeBytes(Take(bytes, 4)) IN
         IF Len(bytes) < 4 + n THEN << >>
         ELSE <<SubSeq(bytes, 5, 4 + n)>> \o FramesOf(Drop(bytes, 4 + n))

RECURSIVE TailOf(_)
\* what is left of bytes after its complete frames
TailOf(bytes) ==
    IF Len(bytes) < 4 THEN bytes
    ELSE LET n == FromBeBytes(Take(bytes, 4)) IN
         IF Len(bytes) < 4 + n THEN bytes
         ELSE TailOf(Drop(bytes, 4 + n))

RECURSIVE DecodedSamples(_)
\* the samples of the non-empty payloads that decode, in order
DecodedSamples(payloads) ==
    IF payloads = << >> THEN << >>
    ELSE (IF Head(payloads) # << >> /\ Decode(Head(payloads)).ok
          THEN <<Decode(Head(payloads)).data>> ELSE << >>)
         \o DecodedSamples(Tail(payloads))

Front(s) == SubSeq(s, 1, Len(s) - 1)

Reading == cpc \in {"read_len", "read_body", "decode"}

----------------------------------------------------------------------------
(* Claims about Consumer::run *)

\* C1: a zero length prefix consumes exactly its four bytes: no payload byte
\* is read, process is not called, MotionState is unchanged and the loop is
\* back at the next length prefix; and a stream [0x00000000][valid frame]
\* followed by end-of-stream gives exactly one process call and Ok(()).
C1_ZeroLengthSkipped ==
    /\ [][ (cpc = "read_len" /\ Len(wire) >= 4 /\ Take(wire, 4) = ZeroFrame
            /\ consumed' # consumed)
           => (/\ consumed' = consumed \o ZeroFrame
               /\ wire' = Drop(wire, 4)
               /\ state' = state
               /\ processed' = processed
               /\ run_result' = run_result
               /\ cpc' = "read_len") ]_vars
    /\ [](\A d \in Samples :
            (cpc = "done" /\ run_result # "IoError"
             /\ consumed = ZeroFrame \o Frame(Encode(d)))
            => (processed = <<d>> /\ run_result = "Ok"))

C1_Witness ==
    \E d \in Samples :
        /\ cpc = "done"
        /\ consumed = ZeroFrame \o Frame(Encode(d))
        /\ processed = <<d>>
        /\ run_result = "Ok"

\* C2: a non-empty payload that fails to decode neither ends the loop nor
\* changes MotionState: the announced number of bytes is consumed, process
\* is not called and reading resumes at the next length prefix; and a stream
\* [undecodable frame][valid frame] followed by end-of-stream gives exactly
\* one process call and Ok(()).
C2_UndecodableSkipped ==
    /\ [][ (cpc = "read_body" /\ consumed' # consumed /\ Len(wire) >= message_len)
           => (/\ consumed' = consumed \o Take(wire, message_len)
               /\ wire' = Drop(wire, message_len)
               /\ processed' = processed /\ state' = state) ]_vars
    /\ [][ (cpc = "decode" /\ ~Decode(buffer).ok /\ cpc' # cpc)
           => (/\ cpc' = "read_len"
               /\ state' = state
               /\ processed' = processed
               /\ run_result' = run_result
               /\ consumed' = consumed
               /\ wire' = wire) ]_vars
    /\ [](\A g \in GarbagePayloads : \A d \in Samples :
            (cpc = "done" /\ run_result # "IoError"
             /\ consumed = Frame(g) \o Frame(Encode(d)))
            => (processed = <<d>> /\ run_result = "Ok"))

C2_Witness ==
    \E g \in GarbagePayloads : \E d \in Samples :
        /\ ~Decode(g).ok
        /\ cpc = "done"
        /\ consumed = Frame(g) \o Frame(Encode(d))
        /\ processed = <<d>>
        /\ run_result = "Ok"

\* C3: when the stream ends after a non-zero length prefix and before the
\* whole announced payload, run returns Err, never Ok(()), and the cut-off
\* frame is not processed.
C3_TruncatedFrameIsError ==
    (cpc = "done" /\ Len(TailOf(consumed)) >= 4)
    => (/\ run_result \in {"UnexpectedEof", "IoError"}
        /\ processed = DecodedSamples(FramesOf(consumed)))

C3_Witness ==
    /\ cpc = "done"
    /\ Len(TailOf(consumed)) > 4
    /\ FramesOf(consumed) # << >>
    /\ writer_closed
    /\ run_result = "UnexpectedEof"

\* C4: once the peer has closed the stream at a frame boundary after any
\* finite sequence of well-formed frames, run eventually returns, and it
\* returns Ok(()) unless a read failed with an I/O error.
C4_CleanCloseTerminatesOk ==
    (Reading /\ writer_closed /\ TailOf(consumed \o wire) = << >>)
    ~> (cpc = "done" /\ run_result \in {"Ok", "IoError"})

C4_Witness ==
    /\ cpc = "done"
    /\ run_result = "Ok"
    /\ TailOf(consumed) = << >>
    /\ Len(FramesOf(consumed)) = 3
    /\ Len(processed) = 1

\* C5: run returns Ok(()) only when end-of-stream falls exactly on a frame
\* boundary, with no byte of the next length prefix read.
C5_OkOnlyAtFrameBoundary ==
    (cpc = "done" /\ run_result = "Ok") => TailOf(consumed) = << >>

\* C6: the samples passed to process are exactly the decoded payloads of the
\* non-empty decodable frames read so far, in stream order and once each;
\* while a frame is being decoded and processed no byte after it has been
\* read.
C6_InOrderExactlyOnce ==
    /\ processed = DecodedSamples(IF cpc = "decode"
                                  THEN Front(FramesOf(consumed))
                                  ELSE FramesOf(consumed))
    /\ cpc = "decode" =>
         /\ TailOf(consumed) = << >>
         /\ FramesOf(consumed) # << >>
         /\ FramesOf(consumed)[Len(FramesOf(consumed))] = buffer

C6_Witness ==
    /\ Len(processed) = 2
    /\ processed[1] # processed[2]
    /\ Len(FramesOf(consumed)) = 3
    /\ cpc = "done"

----------------------------------------------------------------------------
(* Publisher::run, publish_data and send_message *)

MAX_CONSECUTIVE_ERRORS == 5

SetupOutcomes == {"ok", "error"}

SendLoop == {"tick", "send_len", "send_body", "backoff"}

EnsureOutcomes == {"ok", "remove_failed", "create_dir_failed"}

AfterRemove_Kept == socket_file

\* if path.exists() { fs::remove_file(path)?; }: nothing is left at the path
AfterRemove == "absent"

\* self.ensure_socket_path().await?: a file found at the socket path is
\* removed, a missing parent directory is created; either can fail
EnsureSocketPath(outcome) ==
    /\ ppc = "ensure_path"
    /\ CASE outcome = "ok" ->
              /\ socket_file' = AfterRemove
              /\ ppc' = "setup"
              /\ UNCHANGED pub_result
         [] outcome = "remove_failed" ->
              /\ socket_file # "absent"
              /\ pub_result' = "Err"
              /\ ppc' = "returned"
              /\ UNCHANGED socket_file
         [] outcome = "create_dir_failed" ->
              /\ socket_file = "absent"
              /\ pub_result' = "Err"
              /\ ppc' = "returned"
              /\ UNCHANGED socket_file
    /\ UNCHANGED <<streamVars, consumerVars, listener, backlog,
                   chunks_written, consecutive_errors, imu_data, sent_ok, send_attempts,
                   publish_result, failed_in_a_row, reader_closed, faults,
                   streams, conns, timeout,
                   benchVars>>

\* match UnixListener::bind(&self.socket_path), and the ? of
\* let listener = self.setup_socket().await?; bind fails on a path where
\* something exists
Setup(outcome) ==
    /\ ppc = "setup"
    /\ IF outcome = "ok"
       THEN /\ socket_file = "absent"
            /\ listener' = "bound"
            /\ socket_file' = "socket"
            /\ ppc' = "accept"
            /\ UNCHANGED pub_result
       ELSE /\ pub_result' = "Err"
            /\ ppc' = "returned"
            /\ UNCHANGED <<listener, socket_file>>
    /\ UNCHANGED <<streamVars, consumerVars, backlog, chunks_written,
                   consecutive_errors, imu_data, sent_ok, send_attempts, publish_result,
                   failed_in_a_row, reader_closed, faults, streams, conns, timeout,
                   benchVars>>

\* wait_for_consumer returns Ok(stream); publish_data starts with
\* consecutive_errors = 0
WaitForConsumer ==
    /\ ppc = "accept"
    /\ backlog # "empty"
    /\ reader_closed' = (backlog = "dead")
    /\ backlog' = "empty"
    /\ consecutive_errors' = 0
    /\ failed_in_a_row' = 0
    /\ sent_ok' = << >>
    /\ faults' = 0
    /\ streams' = streams + 1
    /\ publish_result' = "none"
    /\ ppc' = "tick"
    /\ UNCHANGED <<streamVars, consumerVars, listener, socket_file, chunks_written,
                   imu_data, pub_result, send_attempts, conns, timeout,
                   benchVars>>

AcceptFailed_Propagate ==
    /\ pub_result' = "Err"
    /\ ppc' = "returned"

\* Err(e) => { error!(..); sleep(100ms).await; continue; }
AcceptFailed ==
    /\ ppc' = "accept_backoff"
    /\ UNCHANGED pub_result

\* wait_for_consumer returns Err(e)
AcceptError ==
    /\ ppc = "accept"
    /\ AcceptFailed
    /\ UNCHANGED <<streamVars, consumerVars, listenerVars, chunks_written,
                   consecutive_errors, imu_data, sent_ok, send_attempts, publish_result,
                   failed_in_a_row, reader_closed, faults, streams, conns, timeout,
                   benchVars>>

\* the sleep after a failed accept is over: accept again
AcceptRetry ==
    /\ ppc = "accept_backoff"
    /\ ppc' = "accept"
    /\ UNCHANGED <<streamVars, consumerVars, listenerVars, chunks_written,
                   consecutive_errors, imu_data, pub_result, sent_ok, send_attempts,
                   publish_result, failed_in_a_row, reader_closed, faults, streams,
                   conns, timeout,
                   benchVars>>

\* interval_timer.tick().await; let imu_data = self.emulator.generate_data();
GenerateData ==
    /\ ppc = "tick"
    /\ Len(sent_ok) < MaxSends \/ reader_closed
    /\ \E d \in Samples : imu_data' = d
    /\ send_attempts' = 0
    /\ ppc' = "send_len"
    /\ UNCHANGED <<streamVars, consumerVars, listenerVars, chunks_written,
                   consecutive_errors, pub_result, sent_ok, publish_result,
                   failed_in_a_row, reader_closed, faults, streams, conns, timeout,
                   benchVars>>

DropStream_Leak == streams

\* publish_data(&mut self, mut stream: UnixStream) owns the stream: it is
\* dropped when publish_data returns
DropStream == streams - 1

AbortNow_Exceeds(n) == n > MAX_CONSECUTIVE_ERRORS

\* if consecutive_errors >= MAX_CONSECUTIVE_ERRORS
AbortNow(n) == n >= MAX_CONSECUTIVE_ERRORS

AfterOk_KeepCount == consecutive_errors

\* Ok(_) => { consecutive_errors = 0; }
AfterOk == 0

\* send_message returned Err(e): count it, then either return
\* Err(BrokenPipe), which drops the stream, or sleep and go round again
SendFailed ==
    /\ consecutive_errors' = consecutive_errors + 1
    /\ failed_in_a_row' = failed_in_a_row + 1
    /\ imu_data' = DefaultImuData
    /\ IF AbortNow(consecutive_errors')
       THEN /\ publish_result' = "BrokenPipe"
            /\ ppc' = "publish_returned"
            /\ writer_closed' = IF reader_closed THEN writer_closed ELSE TRUE
            /\ streams' = DropStream
       ELSE /\ ppc' = "backoff"
            /\ UNCHANGED <<publish_result, writer_closed, streams>>

\* self.send_message(&mut stream, imu_data): one more call for the sample in
\* imu_data
CallSendMessage == send_attempts' = send_attempts + 1

\* stream.write_all(&len_bytes) returns Ok
SendLenOk ==
    /\ ppc = "send_len"
    /\ ~reader_closed
    /\ CallSendMessage
    /\ wire' = wire \o ToBeBytes(Len(Encode(imu_data)))
    /\ ppc' = "send_body"
    /\ UNCHANGED <<writer_closed, consumerVars, listenerVars, chunks_written,
                   consecutive_errors, imu_data, pub_result, sent_ok,
                   publish_result, failed_in_a_row, reader_closed, faults, streams,
                   conns, timeout,
                   benchVars>>

\* stream.write_all(&len_bytes) fails on a stream whose reader is gone
SendLenBroken ==
    /\ ppc = "send_len"
    /\ reader_closed
    /\ CallSendMessage
    /\ SendFailed
    /\ UNCHANGED <<wire, consumerVars, listenerVars, chunks_written,
                   pub_result, sent_ok, reader_closed, faults, conns, timeout,
                   benchVars>>

\* stream.write_all(&len_bytes) fails after k of the four bytes were written
SendLenFault(k) ==
    /\ ppc = "send_len"
    /\ ~reader_closed
    /\ k = 0 \/ faults < MaxPartial
    /\ faults' = IF k = 0 THEN faults ELSE faults + 1
    /\ wire' = wire \o Take(ToBeBytes(Len(Encode(imu_data))), k)
    /\ CallSendMessage
    /\ SendFailed
    /\ UNCHANGED <<consumerVars, listenerVars, chunks_written, pub_result,
                   sent_ok, reader_closed, conns, timeout,
                   benchVars>>

\* stream.write_all(&buf) and stream.flush() return Ok: send_message is Ok
SendBodyOk ==
    /\ ppc = "send_body"
    /\ ~reader_closed
    /\ wire' = wire \o Encode(imu_data)
    /\ sent_ok' = Append(sent_ok, imu_data)
    /\ consecutive_errors' = AfterOk
    /\ failed_in_a_row' = 0
    /\ imu_data' = DefaultImuData
    /\ ppc' = "tick"
    /\ UNCHANGED <<writer_closed, consumerVars, listenerVars, chunks_written,
                   pub_result, send_attempts, publish_result, reader_closed, faults, streams, conns, timeout,
                   benchVars>>

\* stream.write_all(&buf) fails on a stream whose reader is gone
SendBodyBroken ==
    /\ ppc = "send_body"
    /\ reader_closed
    /\ SendFailed
    /\ UNCHANGED <<wire, consumerVars, listenerVars, chunks_written,
                   pub_result, sent_ok, send_attempts, reader_closed, faults, conns, timeout,
                   benchVars>>

\* stream.write_all(&buf) fails after k bytes of the payload were written
SendBodyFault(k) ==
    /\ ppc = "send_body"
    /\ ~reader_closed
    /\ faults < MaxPartial
    /\ k < Len(Encode(imu_data))
    /\ faults' = faults + 1
    /\ wire' = wire \o Take(Encode(imu_data), k)
    /\ SendFailed
    /\ UNCHANGED <<consumerVars, listenerVars, chunks_written, pub_result,
                   sent_ok, send_attempts, reader_closed, conns, timeout,
                   benchVars>>

AfterBackoff_Resend == "send_len"

\* the loop body ends after the sleep: the next iteration starts with
\* interval_timer.tick().await
AfterBackoff == "tick"

\* tokio::time::sleep(Duration::from_millis(100)).await, then the next tick
Backoff ==
    /\ ppc = "backoff"
    /\ ppc' = AfterBackoff
    /\ UNCHANGED <<streamVars, consumerVars, listenerVars, chunks_written,
                   consecutive_errors, imu_data, pub_result, sent_ok, send_attempts,
                   publish_result, failed_in_a_row, reader_closed, faults, streams,
                   conns, timeout,
                   benchVars>>

RunMatch_Return ==
    /\ pub_result' = "Err"
    /\ ppc' = "returned"

\* match self.publish_data(stream).await
RunMatch ==
    CASE publish_result = "Ok" ->
           pub_result' = "Ok" /\ ppc' = "returned"
      [] publish_result = "BrokenPipe" ->
           ppc' = "reconnect_sleep" /\ UNCHANGED pub_result
      [] OTHER ->
           pub_result' = "Err" /\ ppc' = "returned"

\* publish_data has returned to run
PublishReturned ==
    /\ ppc = "publish_returned"
    /\ RunMatch
    /\ UNCHANGED <<streamVars, consumerVars, listenerVars, chunks_written,
                   consecutive_errors, imu_data, sent_ok, send_attempts, publish_result,
                   failed_in_a_row, reader_closed, faults, streams, conns, timeout,
                   benchVars>>

\* tokio::time::sleep(Duration::from_millis(100)).await, then accept again
ReconnectSleep ==
    /\ ppc = "reconnect_sleep"
    /\ ppc' = "accept"
    /\ UNCHANGED <<streamVars, consumerVars, listenerVars, chunks_written,
                   consecutive_errors, imu_data, pub_result, sent_ok, send_attempts,
                   publish_result, failed_in_a_row, reader_closed, faults, streams,
                   conns, timeout,
                   benchVars>>

PublisherStep ==
    \/ \E outcome \in EnsureOutcomes : EnsureSocketPath(outcome)
    \/ \E outcome \in SetupOutcomes : Setup(outcome)
    \/ WaitForConsumer
    \/ AcceptRetry
    \/ GenerateData
    \/ SendLenOk
    \/ SendLenBroken
    \/ SendBodyOk
    \/ SendBodyBroken
    \/ Backoff
    \/ PublishReturned
    \/ ReconnectSleep

\* how many bytes of the length prefix, and of the payload, a failed
\* write_all had already put on the stream
LenCuts == {0, 1, 3}

BodyCuts == {0, 5}

PublisherFault ==
    \/ AcceptError
    \/ \E k \in LenCuts : SendLenFault(k)
    \/ \E k \in BodyCuts : SendBodyFault(k)

----------------------------------------------------------------------------
(* Consumer processes around the publisher *)

\* a new consumer process: Consumer::new(..).run()
ConsumerStart ==
    /\ ppc # "off"
    /\ cpc \in {"none", "done"}
    /\ conns < MaxConns
    /\ conns' = conns + 1
    /\ timeout' = DEFAULT_TIMEOUT
    /\ cpc' = "connect"
    /\ message_len' = 0
    /\ buffer' = << >>
    /\ state' = DefaultMotionState
    /\ run_result' = "none"
    /\ consumed' = << >>
    /\ processed' = << >>
    /\ velocity_decay' = VELOCITY_DECAY
    /\ UNCHANGED <<streamVars, listenerVars, chunks_written, pubLocal,
                   reader_closed, faults, streams, dt_ms, emulator, now,
                   emu_log, move_call>>

\* the consumer process goes away in the middle of the stream; nothing of
\* it is left but the closed connection
ConsumerDrop ==
    /\ ppc # "off"
    /\ Reading
    /\ Return("killed")
    /\ message_len' = 0
    /\ buffer' = << >>
    /\ state' = DefaultMotionState
    /\ consumed' = << >>
    /\ processed' = << >>
    /\ UNCHANGED <<writer_closed, listener, socket_file, chunks_written, pubLocal, faults, streams,
                   conns, timeout,
                   benchVars>>

PipelineInit ==
    /\ wire = << >>
    /\ writer_closed = FALSE
    /\ cpc = "none"
    /\ message_len = 0
    /\ buffer = << >>
    /\ state = DefaultMotionState
    /\ run_result = "none"
    /\ consumed = << >>
    /\ processed = << >>
    /\ listener = "unbound"
    /\ socket_file \in {"absent", "stale"}
    /\ backlog = "empty"
    /\ chunks_written = 0
    /\ ppc = "ensure_path"
    /\ consecutive_errors = 0
    /\ imu_data = DefaultImuData
    /\ reader_closed = TRUE
    /\ pub_result = "none"
    /\ sent_ok = << >>
    /\ publish_result = "none"
    /\ failed_in_a_row = 0
    /\ faults = 0
    /\ conns = 0
    /\ streams = 0
    /\ timeout = DEFAULT_TIMEOUT
    /\ send_attempts = 0
    /\ velocity_decay = VELOCITY_DECAY
    /\ dt_ms = 0
    /\ emulator = NewEmulator
    /\ now = UNIX_EPOCH
    /\ emu_log = NoCalls
    /\ move_call = NoMove

PipelineNext ==
    \/ PublisherStep
    \/ PublisherFault
    \/ ConsumerStep
    \/ ConsumerStart
    \/ ConsumerDrop

\* publisher and consumer with every fault of the environment
PipelineSpec ==
    PipelineInit /\ [][PipelineNext]_vars
    /\ WF_vars(PublisherStep) /\ WF_vars(ConsumerStep)

\* the steps left when a write fails only because the reader is gone and
\* accept does not fail: the publisher then never closes a stream that is
\* still read, so the consumer meets no end-of-stream
ReconnectNext ==
    \/ \E outcome \in EnsureOutcomes : EnsureSocketPath(outcome)
    \/ \E outcome \in SetupOutcomes : Setup(outcome)
    \/ WaitForConsumer
    \/ GenerateData
    \/ SendLenOk
    \/ SendLenBroken
    \/ SendBodyOk
    \/ SendBodyBroken
    \/ Backoff
    \/ PublishReturned
    \/ ReconnectSleep
    \/ \E outcome \in ConnectOutcomes : Connect(outcome)
    \/ ReadLen
    \/ ReadBody
    \/ DecodeMessage
    \/ ConsumerStart
    \/ ConsumerDrop

\* publisher and consumer where a write fails only because the reader is gone
ReconnectSpec ==
    PipelineInit /\ [][ReconnectNext]_vars
    /\ WF_vars(PublisherStep) /\ WF_vars(ConsumerStep)

----------------------------------------------------------------------------
(* Claims about the pipeline *)

IsPrefix(a, b) == Len(a) <= Len(b) /\ a = Take(b, Len(a))

\* C7: on one connection every sample whose send_message returned Ok is
\* handed to process exactly once, in send order and unchanged: what was
\* processed is always a prefix of what was sent, and when the consumer has
\* read the stream to its end it has processed all of it.
C7_EndToEnd ==
    /\ IsPrefix(processed, sent_ok)
    /\ (cpc = "done" /\ run_result \in {"Ok", "UnexpectedEof"})
         => processed = sent_ok

C9_RunKeepsAccepting ==
    /\ [](listener = "bound" => (ppc # "returned" /\ pub_result = "none"))
    /\ [](ppc = "publish_returned" => publish_result = "BrokenPipe")
    /\ [][ (ppc = "publish_returned" /\ ppc' # ppc)
           => ppc' = "reconnect_sleep" ]_vars
    /\ [][ (ppc = "reconnect_sleep" /\ ppc' # ppc) => ppc' = "accept" ]_vars
    /\ [][ (ppc = "accept" /\ ppc' # ppc)
           => ppc' \in {"tick", "accept_backoff"} ]_vars
    /\ [][ (ppc = "accept_backoff" /\ ppc' # ppc) => ppc' = "accept" ]_vars
    /\ [][ listener = "bound" => listener' = "bound" ]_vars

C9_Witness ==
    /\ ppc = "accept_backoff"
    /\ publish_result = "BrokenPipe"
    /\ listener = "bound"
    /\ pub_result = "none"

\* C10: when the consumer has gone away in the middle of the stream the
\* publisher eventually leaves the send loop and accepts again, and a
\* consumer that has connected eventually is handed complete frames, unless
\* it goes away itself.
C10_Reconnects ==
    /\ (ppc \in SendLoop /\ reader_closed) ~> (ppc = "accept")
    /\ (backlog = "live") ~> (processed # << >> \/ run_result = "killed")

C10_Witness ==
    /\ conns = 2
    /\ publish_result = "none"
    /\ ppc \in SendLoop
    /\ processed # << >>
    /\ processed = sent_ok

----------------------------------------------------------------------------
(* Claims about connections, startup and the connect timeout *)

\* C11: the publisher holds at most one accepted stream at a time: it holds
\* exactly one while the send loop runs and none while it is in accept, and
\* a stream is accepted only from accept while none is held
C11_OneConnectionAtATime ==
    /\ [](streams \in {0, 1})
    /\ [](ppc \in SendLoop <=> streams = 1)
    /\ [](ppc \in {"accept", "accept_backoff"} => streams = 0)
    /\ [][streams' > streams => (ppc = "accept" /\ streams = 0)]_vars

\* C11 witness: a second consumer is being served after the first
\* connection was given up
C11_Witness ==
    /\ conns = 2
    /\ streams = 1
    /\ ppc = "send_body"
    /\ ~reader_closed
    /\ processed # << >>

\* C12: bind is attempted only with nothing left at the socket path; a
\* failed removal, directory creation or bind makes run return Err, and
\* until the listener is bound nothing is accepted and no sample generated
C12_StartupFailureIsFatal ==
    /\ [](ppc = "setup" => socket_file = "absent")
    /\ [](listener = "unbound" =>
            /\ ppc \in {"ensure_path", "setup", "returned"}
            /\ streams = 0
            /\ backlog = "empty"
            /\ imu_data = DefaultImuData
            /\ sent_ok = << >>)
    /\ []((listener = "unbound" /\ ppc = "returned") => pub_result = "Err")
    /\ [][(ppc = "ensure_path" /\ ppc' # ppc) =>
            \/ ppc' = "setup" /\ socket_file' = "absent"
            \/ ppc' = "returned" /\ pub_result' = "Err"]_vars
    /\ [][(ppc = "setup" /\ ppc' # ppc) =>
            \/ ppc' = "accept" /\ listener' = "bound"
            \/ ppc' = "returned" /\ pub_result' = "Err" /\ listener' = "unbound"]_vars
    /\ [][ppc = "returned" => ppc' = "returned"]_vars

\* C12 witness: the stale file could not be removed and run has returned
\* Err; a consumer that tried to connect was refused
C12_Witness ==
    /\ ppc = "returned"
    /\ pub_result = "Err"
    /\ socket_file = "stale"
    /\ listener = "unbound"
    /\ run_result = "ConnectError"

\* C13: a failed or timed-out connect ends run with that error: nothing
\* was read, nothing processed, MotionState is the default one, and run
\* never goes back to connecting
C13_ConnectFailureIsFatal ==
    /\ [](run_result \in {"ConnectError", "TimedOut"} =>
            /\ cpc = "done"
            /\ consumed = << >>
            /\ processed = << >>
            /\ state = DefaultMotionState)
    /\ [][cpc # "connect" => cpc' # "connect"]_vars
    /\ [][(cpc = "connect" /\ cpc' = "done") =>
            run_result' \in {"ConnectError", "TimedOut"}]_vars
    /\ (cpc = "connect") ~> (cpc \in {"read_len", "done"})

\* C13 witness: the connect attempt to a bound listener timed out
C13_Witness ==
    /\ run_result = "TimedOut"
    /\ cpc = "done"
    /\ listener = "bound"
    /\ backlog = "empty"

\* C14: the time after which run gives up connecting is the configured
\* timeout taken as milliseconds
C14_TimeoutInMilliseconds ==
    run_result = "TimedOut" => ConsumerTimeout = timeout

----------------------------------------------------------------------------
(* MotionProcessor::process called sample by sample, as motion.rs's tests do *)

\* accelerometer and gyro readings: at rest along z and along x, the
\* reading of test_acceleration_integration, and a turning device whose
\* accelerometer magnitude is below, on, inside and above the band
Readings ==
    { <<0, 0, 1000, 0, 0, 0>>,
      <<1000, 0, 0, 0, 0, 0>>,
      <<1000, 0, 1000, 0, 0, 0>>,
      <<0, 0, 949, 10000, 0, 0>>,
      <<0, 0, 950, 10000, 0, 0>>,
      <<0, 0, 1000, 10000, 0, 0>>,
      <<0, 0, 1050, 10000, 0, 0>>,
      <<0, 0, 1051, 10000, 0, 0>> }

\* timestamps: 0, and steps of 100 ms, of 101 ms, of nothing and backwards
Timestamps == {0, 1000, 1100, 1201}

\* the sample d with the magnetometer reading m and its timestamp
WithMag(d, m) ==
    [d EXCEPT !["x_mag"] = m[1], !["y_mag"] = m[2], !["z_mag"] = m[3],
              !["timestamp_mag"] = m[4]]

\* magnetometer readings with their timestamps
MagReadings == { <<30, -40, 50, 7>>, <<-400, 0, 399, 2000>> }

\* readings at the edge of the dead-zone of 0.01 m/s^2 = 10 mm/s^2: with
\* gravity taken off, 9 mm/s^2 along x and -10 along z, and 19 along x and
\* 9 along z
DeadZoneReadings == { <<1, 0, 999, 0, 0, 0>>, <<2, 0, 1001, 0, 0, 0>> }

\* the samples of the tests, two of them, one turning and one pushed
\* along x, with a magnetometer reading, and the readings at the edge of
\* the dead-zone
MotionSamples ==
    { create_test_imu_data(r[1], r[2], r[3], r[4], r[5], r[6], t) :
        r \in Readings, t \in Timestamps }
    \cup
    { WithMag(create_test_imu_data(r[1], r[2], r[3], r[4], r[5], r[6], 1100), m) :
        r \in { <<0, 0, 1000, 10000, 0, 0>>, <<1000, 0, 1000, 0, 0, 0>> },
        m \in MagReadings }
    \cup
    { create_test_imu_data(r[1], r[2], r[3], r[4], r[5], r[6], t) :
        r \in DeadZoneReadings, t \in {1000, 1100} }

\* processor.process(&data)
ProcessCall(d) ==
    /\ Len(processed) < MaxSamples
    /\ state' = Process(state, d)
    /\ processed' = Append(processed, d)
    /\ UNCHANGED <<streamVars, cpc, message_len, buffer, run_result, consumed,
                   listenerVars, chunks_written, publisherVars>>

\* MotionProcessor::new(logger), nothing else running
MotionInit ==
    /\ wire = << >>
    /\ writer_closed = FALSE
    /\ cpc = "none"
    /\ message_len = 0
    /\ buffer = << >>
    /\ state = DefaultMotionState
    /\ run_result = "none"
    /\ consumed = << >>
    /\ processed = << >>
    /\ listener = "unbound"
    /\ socket_file = "absent"
    /\ backlog = "empty"
    /\ chunks_written = 0
    /\ ppc = "off"
    /\ consecutive_errors = 0
    /\ imu_data = DefaultImuData
    /\ reader_closed = FALSE
    /\ pub_result = "none"
    /\ sent_ok = << >>
    /\ publish_result = "none"
    /\ failed_in_a_row = 0
    /\ faults = 0
    /\ conns = 0
    /\ streams = 0
    /\ timeout = DEFAULT_TIMEOUT
    /\ send_attempts = 0
    /\ velocity_decay = VELOCITY_DECAY
    /\ dt_ms = 0
    /\ emulator = NewEmulator
    /\ now = UNIX_EPOCH
    /\ emu_log = NoCalls
    /\ move_call = NoMove

MotionNext == \E d \in MotionSamples : ProcessCall(d)

MotionSpec == MotionInit /\ [][MotionNext]_vars /\ WF_vars(MotionNext)

RECURSIVE StateAfter(_)
\* the MotionState of a fresh processor after the calls process(samples[1]),
\* process(samples[2]), ...
StateAfter(samples) ==
    IF samples = << >> THEN DefaultMotionState
    ELSE Process(StateAfter(Front(samples)), samples[Len(samples)])

\* the state before the latest process call, and that call's sample
Before == StateAfter(Front(processed))
Latest == processed[Len(processed)]

----------------------------------------------------------------------------
(* Claims about MotionProcessor::process *)

\* milliseconds from the timestamp stored for a channel to a later one
Elapsed(current, last) == IF current >= last THEN current - last ELSE 0

\* C15: a sample that comes more than 100 ms after the timestamp stored by
\* an earlier sample leaves orientation (gyro channel) and velocity and
\* position (accelerometer channel) as they were, and the sample's
\* timestamps are stored in either case
C15_StaleDeltaLaw ==
    processed # << >> =>
        /\ state.last_gyro_timestamp = Latest["timestamp_gyro"]
        /\ state.last_acc_timestamp = Latest["timestamp_acc"]
        /\ Len(processed) > 1 =>
              /\ Elapsed(Latest["timestamp_gyro"], Before.last_gyro_timestamp) > 100
                    => state.orientation = Before.orientation
              /\ Elapsed(Latest["timestamp_acc"], Before.last_acc_timestamp) > 100
                    => /\ state.velocity = Before.velocity
                       /\ state.position = Before.position

\* C16: after the first process call on a fresh processor orientation,
\* velocity and position still have their default values
C16_FirstSampleOnlySeeds ==
    Len(processed) = 1 =>
        /\ state.orientation = Identity
        /\ state.velocity = Zeros
        /\ state.position = Zeros

\* C17: dt is the fallback of 1 ms exactly for the first sample of a
\* channel; for every later sample that is not older than the one before,
\* dt is the difference to the timestamp of the sample before
C17_FallbackOnlyForFirstSample ==
    processed # << >> =>
        /\ DtGyro(Before, Latest) =
              IF Len(processed) = 1 THEN MIN_DELTA_TIME
              ELSE Elapsed(Latest["timestamp_gyro"],
                           processed[Len(processed) - 1]["timestamp_gyro"])
        /\ DtAcc(Before, Latest) =
              IF Len(processed) = 1 THEN MIN_DELTA_TIME
              ELSE Elapsed(Latest["timestamp_acc"],
                           processed[Len(processed) - 1]["timestamp_acc"])

\* C18: whatever the previous and the current timestamp, also a current
\* one below the previous, dt is never negative, and an update that
\* changed orientation, velocity or position used a dt of 0 to 100 ms
C18_DeltaTimeBounded ==
    processed # << >> =>
        /\ DtGyro(Before, Latest) >= 0
        /\ DtAcc(Before, Latest) >= 0
        /\ state.orientation # Before.orientation
              => DtGyro(Before, Latest) \in 0..MAX_DELTA_TIME
        /\ (state.velocity # Before.velocity \/ state.position # Before.position)
              => DtAcc(Before, Latest) \in 0..MAX_DELTA_TIME

\* C18 witness: a sample older than the one before it was integrated, with
\* dt = 0: the velocity decayed
C18_Witness ==
    /\ Len(processed) = 2
    /\ Latest["timestamp_acc"] < processed[1]["timestamp_acc"]
    /\ processed[1]["timestamp_acc"] # 0
    /\ DtAcc(Before, Latest) = 0
    /\ state.velocity # Before.velocity

\* C19: an orientation update that is not skipped stores the normalized
\* blend when the accelerometer magnitude is in the closed band
\* [950, 1050], and the gyro-predicted orientation otherwise
C19_CorrectionInClosedBand ==
    (/\ processed # << >>
     /\ ~Stale(DtGyro(Before, Latest))
     /\ ~AngleBelowEpsilon(GyroVec(Latest), DtGyro(Before, Latest))) =>
        LET gyro_orientation ==
                QMul(Before.orientation,
                     GyroQuat(GyroVec(Latest), DtGyro(Before, Latest)))
        IN  state.orientation =
                IF InBand_Closed(AccVec(Latest))
                THEN QNormalize(Blend(gyro_orientation, AccQuat(AccVec(Latest))))
                ELSE gyro_orientation

\* a sample of a device at rest: no rotation, 1 g along one axis
AtRest(d) ==
    /\ GyroVec(d) = Zeros
    /\ AccVec(d) \in { <<1000, 0, 0>>, <<0, 1000, 0>>, <<0, 0, 1000>> }

\* C20: while every sample processed so far is one of a device at rest and
\* each came at most 100 ms after the one before, velocity and position
\* are zero and orientation is the identity
C20_StationaryStaysAtRest ==
    (/\ \A i \in 1..Len(processed) : AtRest(processed[i])
     /\ \A i \in 2..Len(processed) :
            /\ processed[i]["timestamp_acc"] >= processed[i - 1]["timestamp_acc"]
            /\ processed[i]["timestamp_acc"] - processed[i - 1]["timestamp_acc"] <= 100) =>
        /\ state.velocity = Zeros
        /\ state.position = Zeros
        /\ state.orientation = Identity

----------------------------------------------------------------------------
(* test_acceleration_integration, run with several steps dt_ms *)

\* let total_time_steps = 100
total_time_steps == 100

\* let dt_ms = 10, and a shorter and a longer step
TimeSteps == {5, 10, 20}

\* processor.velocity_decay = 1.0, in hundredths
NoDecay == 100

\* let mut data = imu_data; data.timestamp_acc = current_timestamp;
\* data.timestamp_gyro = current_timestamp, in round i of the loop
TestSample(i) == create_test_imu_data(1000, 0, 1000, 0, 0, 0, 1000 + i * dt_ms)

\* one round of the loop: processor.process(&data)
IntegrationStep ==
    /\ Len(processed) < total_time_steps
    /\ state' = Process(state, TestSample(Len(processed)))
    /\ processed' = Append(processed, TestSample(Len(processed)))
    /\ UNCHANGED <<streamVars, cpc, message_len, buffer, run_result, consumed,
                   listenerVars, chunks_written, publisherVars>>

\* MotionProcessor::new(logger) and processor.velocity_decay = 1.0
IntegrationInit ==
    /\ wire = << >>
    /\ writer_closed = FALSE
    /\ cpc = "none"
    /\ message_len = 0
    /\ buffer = << >>
    /\ state = DefaultMotionState
    /\ run_result = "none"
    /\ consumed = << >>
    /\ processed = << >>
    /\ listener = "unbound"
    /\ socket_file = "absent"
    /\ backlog = "empty"
    /\ chunks_written = 0
    /\ ppc = "off"
    /\ consecutive_errors = 0
    /\ imu_data = DefaultImuData
    /\ reader_closed = FALSE
    /\ pub_result = "none"
    /\ sent_ok = << >>
    /\ publish_result = "none"
    /\ failed_in_a_row = 0
    /\ faults = 0
    /\ conns = 0
    /\ streams = 0
    /\ timeout = DEFAULT_TIMEOUT
    /\ send_attempts = 0
    /\ velocity_decay = NoDecay
    /\ dt_ms \in TimeSteps
    /\ emulator = NewEmulator
    /\ now = UNIX_EPOCH
    /\ emu_log = NoCalls
    /\ move_call = NoMove

IntegrationNext == IntegrationStep

IntegrationSpec == IntegrationInit /\ [][IntegrationNext]_vars

\* expected_velocity_x = 9.81 * T and expected_position_x = 0.5 * 9.81 * T^2
\* for T = n * dt_ms, in micrometres per second and micrometres (the
\* position to within dt_ms micrometres)
ExpectedVelocityX(n) == 9810 * n * dt_ms
ExpectedPositionX(n) == Quot(981 * n * n * dt_ms, 200) * dt_ms

\* epsilon = 0.1 and epsilon = 0.01 of the test's assertions, in
\* micrometres (per second)
Epsilon == 100000
EpsilonY == 10000

\* C21 as stated: after every number n of samples and for every step the
\* velocity along x is within 0.1 m/s of 9.81 * T and the position along x
\* within 0.1 m of 0.5 * 9.81 * T^2, and y and z stay at 0 within tolerance
C21_WithinToleranceForEveryStep ==
    processed # << >> =>
        /\ Abs(state.velocity[1] - ExpectedVelocityX(Len(processed))) <= Epsilon
        /\ Abs(state.position[1] - ExpectedPositionX(Len(processed))) <= Epsilon
        /\ Abs(state.velocity[2]) <= EpsilonY /\ Abs(state.position[2]) <= EpsilonY
        /\ Abs(state.velocity[3]) <= Epsilon /\ Abs(state.position[3]) <= Epsilon

\* C21, amended: after n samples the velocity along x is 9.81 m/s^2 times
\* (1 ms + (n - 1) * dt), the first sample being integrated over the 1 ms
\* fallback, and nothing moves along y and z; for steps up to the test's
\* 10 ms and up to the test's 100 samples velocity and position along x
\* are within 0.1 of 9.81 * T and 0.5 * 9.81 * T^2
C21_IntegrationLaw ==
    processed # << >> =>
        /\ state.velocity =
              << 9810 * (MIN_DELTA_TIME + (Len(processed) - 1) * dt_ms), 0, 0 >>
        /\ state.position[2] = 0
        /\ state.position[3] = 0
        /\ dt_ms <= 10 =>
              /\ Abs(state.velocity[1] - ExpectedVelocityX(Len(processed)))
                    <= Epsilon
              /\ Abs(state.position[1] - ExpectedPositionX(Len(processed)))
                    <= Epsilon

\* C21 witness: the end of the test's own run, 100 samples 10 ms apart;
\* the velocity is 9.72171 m/s, expected 9.81
C21_Witness ==
    /\ Len(processed) = total_time_steps
    /\ dt_ms = 10
    /\ state.velocity[1] = 9721710
    /\ state.position[1] > 4805000
    /\ state.position[1] < 5005000

----------------------------------------------------------------------------
(* Claims about what MotionProcessor::process reads *)

RECURSIVE WithoutMag(_)
\* the samples with every magnetometer field and timestamp_mag set to 0
WithoutMag(samples) ==
    IF samples = << >> THEN << >>
    ELSE Append(WithoutMag(Front(samples)),
                WithMag(samples[Len(samples)], <<0, 0, 0, 0>>))

\* C22: after every process call the MotionState is the one of a
\* processor fed the same accelerometer and gyroscope values and
\* timestamps with other x_mag, y_mag, z_mag and timestamp_mag (here: all
\* zero), so two sample sequences that differ only in the magnetometer
\* fields give the same orientation, velocity, position and stored
\* timestamps
C22_MagnetometerIgnored == state = StateAfter(WithoutMag(processed))

\* C22 witness: two samples were processed, the second with a magnetometer
\* reading, and orientation or velocity moved
C22_Witness ==
    /\ Len(processed) = 2
    /\ Latest["x_mag"] # 0
    /\ Latest["timestamp_mag"] # Latest["timestamp_acc"]
    /\ Before # DefaultMotionState
    /\ state.velocity # Before.velocity

----------------------------------------------------------------------------
(* ImuEmulator::generate_data called again and again, as the tests of
   imu_emulator.rs do *)

\* emulator.generate_data(), delay milliseconds after the clock was last read
GenerateDataCall(delay, targets, change, drawn, noise) ==
    /\ emu_log.calls < MaxCalls
    /\ now' = AddMillis(now, delay)
    /\ emulator' = generate_data(emulator, now', targets, change, drawn, noise)
    /\ emu_log' =
          [ calls |-> emu_log.calls + 1,
            drawn |-> drawn,
            updated_at |->
              [ acc |-> IF should_update_sensor(now', emulator.data["timestamp_acc"], drawn.acc)
                        THEN now' ELSE emu_log.updated_at.acc,
                gyro |-> IF should_update_sensor(now', emulator.data["timestamp_gyro"], drawn.gyro)
                         THEN now' ELSE emu_log.updated_at.gyro,
                mag |-> IF should_update_sensor(now', emulator.data["timestamp_mag"], drawn.mag)
                        THEN now' ELSE emu_log.updated_at.mag ] ]
    /\ UNCHANGED <<streamVars, consumerVars, listenerVars, chunks_written,
                   ppc, consecutive_errors, imu_data, pub_result, sent_ok,
                   publish_result, failed_in_a_row, reader_closed, faults, streams, conns, timeout,
                   send_attempts, velocity_decay, dt_ms, move_call>>

EmulatorNext ==
    \E delay \in Delays, targets \in TargetDraws, change \in ChangeDraws,
       drawn \in JitterDraws, noise \in NoiseDraws :
        GenerateDataCall(delay, targets, change, drawn, noise)

\* ImuEmulator::new(), nothing else running
EmulatorInit ==
    /\ wire = << >>
    /\ writer_closed = FALSE
    /\ cpc = "none"
    /\ message_len = 0
    /\ buffer = << >>
    /\ state = DefaultMotionState
    /\ run_result = "none"
    /\ consumed = << >>
    /\ processed = << >>
    /\ listener = "unbound"
    /\ socket_file = "absent"
    /\ backlog = "empty"
    /\ chunks_written = 0
    /\ ppc = "off"
    /\ consecutive_errors = 0
    /\ imu_data = DefaultImuData
    /\ reader_closed = FALSE
    /\ pub_result = "none"
    /\ sent_ok = << >>
    /\ publish_result = "none"
    /\ failed_in_a_row = 0
    /\ faults = 0
    /\ conns = 0
    /\ streams = 0
    /\ timeout = DEFAULT_TIMEOUT
    /\ send_attempts = 0
    /\ velocity_decay = VELOCITY_DECAY
    /\ dt_ms = 0
    /\ emulator = NewEmulator
    /\ now \in StartTimes
    /\ emu_log = NoCalls
    /\ move_call = NoMove

EmulatorSpec == EmulatorInit /\ [][EmulatorNext]_vars /\ WF_vars(EmulatorNext)

\* the three channels and the fields of each
Channels == {"acc", "gyro", "mag"}
ChannelFields(ch) == { "x_" \o ch, "y_" \o ch, "z_" \o ch, "timestamp_" \o ch }

\* C23: from one returned sample to the next no channel's timestamp, a
\* u32, goes down, the clock never going back
C23_TimestampsNonDecreasing ==
    [][\A ch \in Channels :
          ~TimeLess(emulator'.data["timestamp_" \o ch],
                    emulator.data["timestamp_" \o ch])]_vars

\* C24: a generate_data call made when less time than the number drawn
\* for a channel has passed since that channel was last updated leaves the
\* channel's three values and its timestamp as they were
C24_PerChannelCadence ==
    [][emu_log'.calls # emu_log.calls =>
         \A ch \in Channels :
            ~AtLeast(DurationSince(now', emu_log.updated_at[ch]),
                     emu_log'.drawn[ch])
            => \A f \in ChannelFields(ch) :
                  emulator'.data[f] = emulator.data[f]]_vars

----------------------------------------------------------------------------
(* move_toward_target_float and move_toward_target_int called by
   themselves, as test_move_toward_target_float and
   test_move_toward_target_int do *)

\* current, target and max_change of a call of move_toward_target_int: the
\* three calls of the test, and small values around zero
IntArgs ==
    { <<100, 150, 100>>, <<100, 300, 50>>, <<100, 0, 50>> }
    \cup { <<c, t, m>> : c \in -3..3, t \in -6..6, m \in 1..3 }

\* the same for move_toward_target_float, in tenths: the three calls of
\* the test, (5.0, 6.0, 2.0), (5.0, 10.0, 2.0) and (5.0, 0.0, 2.0), and
\* values around zero
FloatArgs ==
    { <<50, 60, 20>>, <<50, 100, 20>>, <<50, 0, 20>> }
    \cup { <<c, t, m>> : c \in {-30, -5, 0, 5, 30},
                          t \in {-60, -25, -10, 0, 10, 25, 60},
                          m \in {10, 20} }

\* let result = emulator.move_toward_target_int(..) or
\* emulator.move_toward_target_float(..)
MoveCall(variant, args) ==
    /\ move_call' =
          [ variant |-> variant,
            current |-> args[1],
            target |-> args[2],
            max_change |-> args[3],
            result |-> IF variant = "int"
                       THEN move_toward_target_int(args[1], args[2], args[3])
                       ELSE move_toward_target_float(args[1], args[2], args[3]) ]
    /\ UNCHANGED <<streamVars, consumerVars, listenerVars, chunks_written,
                   pubLocal, reader_closed, faults, streams, conns, timeout,
                   velocity_decay, dt_ms, emulator, now, emu_log>>

\* let emulator = ImuEmulator::new(), nothing else running
MoveInit ==
    /\ wire = << >>
    /\ writer_closed = FALSE
    /\ cpc = "none"
    /\ message_len = 0
    /\ buffer = << >>
    /\ state = DefaultMotionState
    /\ run_result = "none"
    /\ consumed = << >>
    /\ processed = << >>
    /\ listener = "unbound"
    /\ socket_file = "absent"
    /\ backlog = "empty"
    /\ chunks_written = 0
    /\ ppc = "off"
    /\ consecutive_errors = 0
    /\ imu_data = DefaultImuData
    /\ reader_closed = FALSE
    /\ pub_result = "none"
    /\ sent_ok = << >>
    /\ publish_result = "none"
    /\ failed_in_a_row = 0
    /\ faults = 0
    /\ conns = 0
    /\ streams = 0
    /\ timeout = DEFAULT_TIMEOUT
    /\ send_attempts = 0
    /\ velocity_decay = VELOCITY_DECAY
    /\ dt_ms = 0
    /\ emulator = NewEmulator
    /\ now = UNIX_EPOCH
    /\ emu_log = NoCalls
    /\ move_call = NoMove

MoveNext ==
    \/ \E args \in IntArgs : MoveCall("int", args)
    \/ \E args \in FloatArgs : MoveCall("float", args)

MoveSpec == MoveInit /\ [][MoveNext]_vars

\* C25: the result of a call is the target when the target is at most
\* max_change away from current; otherwise it is 0.7 * (current +-
\* max_change) + 0.3 * current, truncated toward zero in the integer
\* variant, differs from current by at most max_change and lies strictly
\* between current and target
C25_BoundedApproach ==
    move_call.variant # "none" =>
        LET current == move_call.current
            target == move_call.target
            max_change == move_call.max_change
            result == move_call.result
            stepped == IF target > current THEN current + max_change
                       ELSE current - max_change
        IN  IF Abs(target - current) <= max_change
            THEN result = target
            ELSE /\ result = Quot(7 * stepped + 3 * current, 10)
                 /\ Abs(result - current) <= max_change
                 /\ target > current => (current < result /\ result < target)
                 /\ target < current => (target < result /\ result < current)

----------------------------------------------------------------------------
(* Claims about Publisher::publish_data and Publisher::send_message *)

RECURSIVE FramesFor(_)
\* the frames [4-byte length][payload] of the samples, one after another
FramesFor(samples) ==
    IF samples = << >> THEN << >>
    ELSE FramesFor(Front(samples)) \o Frame(Encode(samples[Len(samples)]))

\* the publisher is between two send_message calls on a stream whose
\* reader is there
BetweenSends ==
    /\ ppc \in {"tick", "backoff", "send_len"}
    /\ ~reader_closed
    /\ Reading

\* C26: whenever no send_message call is under way, the bytes written to
\* the stream of the connection so far, read or not yet read, are the
\* complete frames of the samples sent, one after another, and nothing
\* else, whatever writes failed in between
C26_WrittenBytesAreWholeFrames ==
    BetweenSends => consumed \o wire = FramesFor(sent_ok)

\* C27: the counter of publish_data is the number of send_message calls
\* that failed since the last one that succeeded on the connection, every
\* successful send sets it to 0, and publish_data gives the connection up
\* only with MAX_CONSECUTIVE_ERRORS failures in a row
C27_CountsConsecutiveFailures ==
    /\ [](consecutive_errors = failed_in_a_row)
    /\ [][Len(sent_ok') > Len(sent_ok) => consecutive_errors' = 0]_vars
    /\ [](ppc = "publish_returned"
            => failed_in_a_row = MAX_CONSECUTIVE_ERRORS)

\* C27 witness: on a connection on which a write had failed, a later send
\* succeeded and the counter is 0 again
C27_Witness ==
    /\ ppc = "tick"
    /\ ~reader_closed
    /\ faults > 0
    /\ sent_ok # << >>
    /\ consumed \o wire # FramesFor(sent_ok)
    /\ consecutive_errors = 0

\* C28: a round of the loop of publish_data generates one sample and
\* calls send_message once for it: a sample about to be sent was generated
\* in the step before and has not been sent, the publisher leaves that
\* point only by the one send_message call, bytes are written to the
\* stream only by the first call for a sample, and after a failed send
\* the next sample is generated before anything is sent again
C28_OneSendPerSample ==
    /\ [](send_attempts <= 1)
    /\ [](ppc = "send_len" => send_attempts = 0)
    /\ [](ppc = "send_body" => send_attempts = 1)
    /\ [][(ppc # "send_len" /\ ppc' = "send_len") => ppc = "tick"]_vars
    /\ [][(ppc = "send_len" /\ ppc' # "send_len") => send_attempts' = 1]_vars
    /\ [][Len(wire') > Len(wire) => send_attempts' = 1]_vars

\* C28 witness: after a failed send and the sleep, a new sample was
\* generated and its own, first send is under way
C28_Witness ==
    /\ ppc = "send_body"
    /\ consecutive_errors > 0
    /\ imu_data # DefaultImuData
    /\ send_attempts = 1

----------------------------------------------------------------------------
(* Claims about MotionProcessor::update_velocity_and_position *)

\* the world-frame acceleration of the latest sample with gravity taken
\* off, in mm/s^2, before the dead-zone
NoGravityAfter(before) ==
    LET acc_world == Rotate(UpdateOrientation(before, Latest).orientation,
                            AccBody(AccVec(Latest)))
    IN  << acc_world[1] - 0, acc_world[2] - 0, acc_world[3] - 9810 >>

NoGravity == NoGravityAfter(Before)

\* C29: for a sample that is not stale, also one with dt_acc = 0, the new
\* velocity is the old one plus filtered acceleration times dt_acc, the
\* sum multiplied by 0.98, and the new position is the old one plus that
\* decayed velocity times dt_acc
C29_IntegrateDecayAdvance ==
    processed # << >> =>
        LET before == Before
            dt_acc == DtAcc(before, Latest)
            acc_world_no_gravity == NoGravityAfter(before)
        IN  ~Stale(dt_acc) =>
                \A i \in 1..3 :
                    LET filtered == Filter(acc_world_no_gravity[i])
                        summed == before.velocity[i] + filtered * dt_acc
                        decayed == Quot(summed * 98, 100)
                    IN  /\ state.velocity[i] = decayed
                        /\ state.position[i] =
                              before.position[i]
                              + Quot(decayed * dt_acc, 1000)

\* C29 witness: a moving processor took a sample 100 ms after the one
\* before with an acceleration along x; velocity and position along x
\* changed, and the position moved by the new velocity times 0.1 s
C29_Witness ==
    /\ Len(processed) = 2
    /\ DtAcc(Before, Latest) = 100
    /\ Before.velocity[1] # 0
    /\ NoGravity[1] >= 10
    /\ state.velocity[1] # Before.velocity[1]
    /\ state.position[1] = Before.position[1] + Quot(state.velocity[1] * 100, 1000)
    /\ state.position[1] #
          Before.position[1]
          + Quot((Before.velocity[1] + NoGravity[1] * 100) * 100, 1000)

\* C30: in an update that is not stale, a component of the world-frame
\* acceleration without gravity that is below 0.01 m/s^2 in absolute
\* value adds nothing to that component of the velocity, which only
\* decays; a component of 0.01 m/s^2 or more, of either sign, is added in
\* full; each component by itself
C30_DeadZone ==
    processed # << >> =>
        LET before == Before
            dt_acc == DtAcc(before, Latest)
            acc_world_no_gravity == NoGravityAfter(before)
        IN  ~Stale(dt_acc) =>
                \A i \in 1..3 :
                    IF Abs(acc_world_no_gravity[i]) < 10
                    THEN state.velocity[i] =
                            Quot(before.velocity[i] * 98, 100)
                    ELSE state.velocity[i] =
                            Quot((before.velocity[i]
                                  + acc_world_no_gravity[i] * dt_acc) * 98,
                                 100)

\* C30 witness: a sample 100 ms after the one before with 0.009 m/s^2
\* along x and -0.01 m/s^2 along z: the velocity along x only decayed, the
\* one along z took the acceleration
C30_Witness ==
    /\ Len(processed) = 2
    /\ DtAcc(Before, Latest) = 100
    /\ NoGravity[1] = 9
    /\ NoGravity[3] = 0 - 10
    /\ state.velocity[1] = Quot(Before.velocity[1] * 98, 100)
    /\ state.velocity[3] = Quot((Before.velocity[3] - 1000) * 98, 100)
    /\ state.velocity[3] # Quot(Before.velocity[3] * 98, 100)
----------------------------------------------------------------------------
(* MotionProcessor::process with the two timing channels stamped apart *)

\* readings: a tilted device that does not turn, one that turns by just
\* under and just over 1e-6 rad in 1 ms, a turning device whose
\* accelerometer reading is far from the vertical and in the band, one
\* with the reading along z, and one pushed, out of the band
ChannelReadings ==
    { <<1000, 0, 0, 0, 0, 0>>,
      <<1000, 0, 0, 57, 0, 0>>,
      <<1000, 0, 0, 58, 0, 0>>,
      <<0, 600, -800, 10000, 0, 0>>,
      <<0, 0, 1000, 10000, 0, 0>>,
      <<300, 0, 1200, 0, 10000, 0>> }

\* <<timestamp_gyro, timestamp_acc>>: both channels at 1000 and at 1100,
\* the gyro channel late, the accelerometer channel late
ChannelStamps ==
    { <<1000, 1000>>, <<1100, 1100>>, <<1201, 1100>>, <<1100, 1201>> }

\* a sample whose gyro and accelerometer channels carry their own times
ChannelSamples ==
    { [create_test_imu_data(r[1], r[2], r[3], r[4], r[5], r[6], t[1])
          EXCEPT !["timestamp_acc"] = t[2]] :
        r \in ChannelReadings, t \in ChannelStamps }

ChannelNext == \E d \in ChannelSamples : ProcessCall(d)

ChannelSpec == MotionInit /\ [][ChannelNext]_vars /\ WF_vars(ChannelNext)

----------------------------------------------------------------------------
(* Claims about MotionProcessor::update_orientation and the two channels *)

\* C31: when the rotation angle of the step, the norm of the angular rate
\* times dt_gyro, is below 1e-6 rad (a zero gyro reading and dt_gyro = 0
\* included), update_orientation changes nothing but the stored gyro
\* timestamp: the orientation is the one before, whatever the
\* accelerometer reading
C31_SmallRotationSkipped ==
    processed # << >> =>
        LET before == Before
            dt_gyro == DtGyro(before, Latest)
        IN  (/\ dt_gyro <= MAX_DELTA_TIME
             /\ Norm(GyroVec(Latest)) * dt_gyro * 355 < 180 * 113) =>
                /\ state.orientation = before.orientation
                /\ UpdateOrientation(before, Latest) =
                      [before EXCEPT !.last_gyro_timestamp =
                                        Latest["timestamp_gyro"]]

\* C31 witness: a first sample turning at 0.057 deg/s for 1 ms, tilted and
\* in the band, left the orientation at the identity; a second sample
\* with the same gyro timestamp (dt_gyro = 0), turning fast, tilted and in
\* the band, left it there too, while its velocity update ran
C31_Witness ==
    /\ Len(processed) = 2
    /\ GyroVec(processed[1]) = <<57, 0, 0>>
    /\ InBand(AccVec(processed[1]))
    /\ Before.orientation = Identity
    /\ Before.last_gyro_timestamp = processed[1]["timestamp_gyro"]
    /\ Latest["timestamp_gyro"] = processed[1]["timestamp_gyro"]
    /\ GyroVec(Latest) = <<10000, 0, 0>>
    /\ AccVec(Latest) = <<0, 600, -800>>
    /\ state.orientation = Identity
    /\ state.velocity # Before.velocity

\* the delta of one timing channel as the samples themselves give it: the
\* fallback when no earlier sample stored a timestamp for the channel,
\* else the time from the channel's timestamp in the sample before
ChannelDelta(channel) ==
    IF Len(processed) = 1 \/ processed[Len(processed) - 1][channel] = 0
    THEN MIN_DELTA_TIME
    ELSE Elapsed(Latest[channel], processed[Len(processed) - 1][channel])

\* the velocity a sample gives with orientation q from the velocity before
VelocityFrom(q, velocity, dt_acc) ==
    LET acc_world == Rotate(q, AccBody(AccVec(Latest)))
    IN  Integrate(velocity,
                  << Filter(acc_world[1] - 0), Filter(acc_world[2] - 0),
                     Filter(acc_world[3] - 9810) >>,
                  dt_acc)

\* C32: in one process call each channel's delta comes from that channel's
\* own stored timestamp; with an accelerometer delta of at most 100 ms
\* velocity and position are updated whether or not the orientation update
\* was stale or skipped, and with a gyro delta of at most 100 ms and a
\* rotation of 1e-6 rad or more the orientation is updated whether or not
\* the accelerometer delta was stale
C32_ChannelsIndependent ==
    processed # << >> =>
        LET before == Before
            dt_gyro == ChannelDelta("timestamp_gyro")
            dt_acc == ChannelDelta("timestamp_acc")
            gyro == GyroVec(Latest)
        IN  /\ DtGyro(before, Latest) = dt_gyro
            /\ DtAcc(before, Latest) = dt_acc
            /\ dt_acc <= 100 =>
                  LET velocity ==
                          VelocityFrom(state.orientation, before.velocity,
                                       dt_acc)
                  IN  /\ state.velocity = velocity
                      /\ state.position =
                            Advance(before.position, velocity, dt_acc)
            /\ (dt_gyro <= 100 /\ Norm(gyro) * dt_gyro * 355 >= 180 * 113) =>
                  state.orientation =
                      Corrected(QMul(before.orientation,
                                     GyroQuat(gyro, dt_gyro)),
                                AccVec(Latest))

\* C32 witness: a turning sample whose gyro timestamp is 201 ms and whose
\* accelerometer timestamp is 100 ms after those of the sample before: the
\* orientation stayed, the velocity and the position moved
C32_Witness ==
    /\ Len(processed) = 2
    /\ ChannelDelta("timestamp_gyro") = 201
    /\ ChannelDelta("timestamp_acc") = 100
    /\ GyroVec(Latest) # Zeros
    /\ state.orientation = Before.orientation
    /\ state.velocity # Before.velocity
    /\ state.position # Before.position

\* C33: in one process call the orientation is updated first, and the
\* accelerometer reading is rotated to the world frame with the
\* orientation that update left: the one updated from the same sample, or
\* the one before when the update was skipped
C33_RotatesWithUpdatedOrientation ==
    processed # << >> =>
        LET before == Before
            dt_acc == DtAcc(before, Latest)
            oriented == UpdateOrientation(before, Latest)
        IN  /\ state.orientation = oriented.orientation
            /\ ~Stale(dt_acc) =>
                  state.velocity =
                      VelocityFrom(oriented.orientation, before.velocity,
                                   dt_acc)

\* C33 witness: a sample 100 ms after the one before turned the
\* orientation, and the velocity it gave is not the one the orientation
\* before would have given
C33_Witness ==
    /\ Len(processed) = 2
    /\ DtGyro(Before, Latest) = 100
    /\ DtAcc(Before, Latest) = 100
    /\ state.orientation # Before.orientation
    /\ state.velocity =
          VelocityFrom(state.orientation, Before.velocity, 100)
    /\ state.velocity #
          VelocityFrom(Before.orientation, Before.velocity, 100)

\* the blend of the latest call, when its orientation update reached the
\* accelerometer correction: gyro_weight * gyro_orientation + acc_weight *
\* acc_quat before it is normalized
LatestBlend ==
    LET dt_gyro == DtGyro(Before, Latest)
    IN  Blend(QMul(Before.orientation, GyroQuat(GyroVec(Latest), dt_gyro)),
              AccQuat(AccVec(Latest)))

\* the latest call's orientation update was not skipped and its
\* accelerometer reading was in the band
LatestBlended ==
    /\ processed # << >>
    /\ ~Stale(DtGyro(Before, Latest))
    /\ ~AngleBelowEpsilon(GyroVec(Latest), DtGyro(Before, Latest))
    /\ InBand(AccVec(Latest))

\* C34: after every process call the orientation has norm 1, to the
\* precision of the fixed-point arithmetic (one part in a thousand), also
\* when the blend it was normalized from has not; and the blend with the
\* weights 0.98 and 0.02 never has norm zero
C34_OrientationIsUnit ==
    /\ Abs(QNorm(state.orientation) - QS) * 1000 <= QS
    /\ LatestBlended => QNorm(LatestBlend) > 0

\* C34 witness: the blend of a sample whose accelerometer reading is far
\* from the vertical has a norm more than one part in a hundred below 1,
\* and the orientation stored from it has norm 1
C34_Witness ==
    /\ LatestBlended
    /\ (QS - QNorm(LatestBlend)) * 100 > QS
    /\ Abs(QNorm(state.orientation) - QS) * 1000 <= QS
    /\ state.orientation # Before.orientation

----------------------------------------------------------------------------
(* Consumer::run invoked again on the same Consumer *)

\* consumer.run().await on a Consumer whose run has returned: the stream,
\* the reader and the buffer are locals of run and are new;
\* self.motion_processor is the one Consumer::new made
RunAgain ==
    /\ ppc # "off"
    /\ cpc = "done"
    /\ conns < MaxConns
    /\ conns' = conns + 1
    /\ cpc' = "connect"
    /\ message_len' = 0
    /\ buffer' = << >>
    /\ run_result' = "none"
    /\ consumed' = << >>
    /\ processed' = << >>
    /\ UNCHANGED <<state, timeout, streamVars, listenerVars, chunks_written,
                   pubLocal, reader_closed, faults, streams, benchVars>>

RerunNext ==
    \/ PipelineNext
    \/ RunAgain

\* the pipeline with consumers that are run again after run returned
RerunSpec ==
    PipelineInit /\ [][RerunNext]_vars
    /\ WF_vars(PublisherStep) /\ WF_vars(ConsumerStep)

\* C35: the estimate of a connection comes from the samples received on
\* that connection alone: the receive loop starts from the default
\* MotionState, also when run is invoked again on the same Consumer
C35_ConnectionsStartFresh ==
    Reading => state = StateAfter(processed)
====
